---- MODULE Spec2Model ----
(***************************************************************************)
(* Context and memory subsystem of agentic_playground.                     *)
(*                                                                         *)
(* Text is modelled by what the code reads of it: its length and the set   *)
(* of content signals (keywords, '?', backtick, list line, URL) that the   *)
(* substring tests of the importance scorer find in it.  A dict is a       *)
(* record with a field "keys" naming the keys that are present, so that    *)
(* dict.get(key, default) is modelled by Get.  Time is counted in hours,   *)
(* the unit of time_diff_hours; scores are exact decimals in units of      *)
(* 1/100000.                                                               *)
(***************************************************************************)
EXTENDS Integers, Sequences, FiniteSets, TLC

(***************************************************************************)
(* Bounds of the model.                                                    *)
(***************************************************************************)
MaxMsgs == 3
MaxMems == 2
MaxClock == 1
\* A timestamp more than this many hours ahead of the clock has the recency
\* factor of one this many hours ahead: 0.3 times that factor is above 1,
\* so the clamped score is the same.
MaxGrowthHours == 30

(***************************************************************************)
(* Generic helpers.                                                        *)
(***************************************************************************)
Max(a, b) == IF a >= b THEN a ELSE b
Min(a, b) == IF a <= b THEN a ELSE b

RECURSIVE SumSeq(_)
SumSeq(s) == IF s = <<>> THEN 0 ELSE Head(s) + SumSeq(Tail(s))

\* All sequences over S of length 0..n.
SeqsUpTo(S, n) == UNION {[1..k -> S] : k \in 0..n}

\* [x for i, x in enumerate(s) if Keep(i)], as the sequence of kept positions.
RECURSIVE FilterIdx(_, _, _)
FilterIdx(n, i, keep) ==
    IF i > n THEN <<>>
    ELSE (IF i \in keep THEN <<i>> ELSE <<>>) \o FilterIdx(n, i + 1, keep)

(***************************************************************************)
(* Text.  The signals of a text: "question" ('?' occurs), "code" (a         *)
(* backtick occurs), "list" (the pattern ^\s*[-*\d]+\. matches some line),  *)
(* "bullet" (some line starts with '-' or '*' and the pattern matches on   *)
(* no line, as in "- item"), "url" ("http://" or "https://" occurs), and   *)
(* the keywords that occur in the lowercased text.                         *)
(***************************************************************************)
Text(n, sig) == [len |-> n, signals |-> sig]
EmptyText == Text(0, {})

\* Lengths of the literal strings the code uses.
RoleLen(role) ==
    CASE role = "system" -> 6
      [] role = "user" -> 4
      [] role = "assistant" -> 9
      [] OTHER -> 0

\* dict.get(key, default)
Get(d, key, default) == IF key \in d.keys THEN d[key] ELSE default

(***************************************************************************)
(* utils/tokens.py                                                         *)
(***************************************************************************)
CharsPerToken == 4
MessageOverhead == 10
ConversationOverhead == 5

\* estimate_tokens without its floor of one token
estimate_tokens_NoFloor(len) == len \div CharsPerToken

\* estimate_tokens(text), on the length of the text
estimate_tokens(len) ==
    IF len = 0 THEN 0 ELSE Max(1, len \div CharsPerToken)

\* one iteration of the loop of estimate_tokens_for_messages
MessageTokens(msg) ==
    LET role_tokens == estimate_tokens(RoleLen(Get(msg, "role", "")))
        content_tokens == estimate_tokens(Get(msg, "content", EmptyText).len)
    IN  role_tokens + content_tokens + MessageOverhead

RECURSIVE TotalTokensLoop(_)
TotalTokensLoop(messages) ==
    IF messages = <<>> THEN 0
    ELSE MessageTokens(Head(messages)) + TotalTokensLoop(Tail(messages))

estimate_tokens_for_messages(messages) ==
    IF messages = <<>> THEN 0
    ELSE TotalTokensLoop(messages) + ConversationOverhead

(***************************************************************************)
(* importance.py                                                           *)
(***************************************************************************)
high_importance_keywords ==
    {"error", "exception", "failed", "bug", "issue", "important", "critical",
     "urgent", "decided", "decision", "conclusion", "summary", "key point",
     "note that", "remember", "don't forget"}

\* Factors are in units of 1/10000, weights in tenths, scores in 1/100000.
One == 10000
ScoreOne == 100000
RECENCY_WEIGHT == 3
CONTENT_WEIGHT == 4
INTERACTION_WEIGHT == 2
ROLE_WEIGHT == 1

Clamp(x, lo, hi) == Max(lo, Min(hi, x))

\* math.exp(-1/24.0) and math.exp(1/24.0), in units of 1/10000
DecayPerHour == 9592
GrowthPerHour == 10425

\* math.exp(-time_diff_hours / 24.0)
RECURSIVE recency_factor(_)
recency_factor(time_diff_hours) ==
    IF time_diff_hours = 0 THEN One
    ELSE IF time_diff_hours < 0 - MaxGrowthHours
         THEN recency_factor(0 - MaxGrowthHours)
    ELSE IF time_diff_hours > 0
         THEN (recency_factor(time_diff_hours - 1) * DecayPerHour) \div One
         ELSE (recency_factor(time_diff_hours + 1) * GrowthPerHour) \div One

LongContentLen == 500
ShortContentLen == 20

_calculate_content_importance(content) ==
    IF content.len = 0 THEN 0
    ELSE LET score ==
               5000
               + 1000 * Cardinality(content.signals \cap high_importance_keywords)
               + (IF "question" \in content.signals THEN 1500 ELSE 0)
               + (IF "code" \in content.signals THEN 1000 ELSE 0)
               + (IF "list" \in content.signals THEN 500 ELSE 0)
               + (IF "url" \in content.signals THEN 500 ELSE 0)
               + (IF content.len > LongContentLen THEN 500 ELSE 0)
               - (IF content.len < ShortContentLen THEN 1000 ELSE 0)
         IN  Clamp(score, 0, One)

role_factor(role) ==
    CASE role = "user" -> 10000
      [] role = "system" -> 9000
      [] role = "assistant" -> 7000
      [] OTHER -> 7000

calculate_importance_score(content, role, timestamp, current_time, has_replies) ==
    LET time_diff_hours == current_time - timestamp
        interaction_factor == IF has_replies THEN 10000 ELSE 5000
        score == recency_factor(time_diff_hours) * RECENCY_WEIGHT
                 + _calculate_content_importance(content) * CONTENT_WEIGHT
                 + interaction_factor * INTERACTION_WEIGHT
                 + role_factor(role) * ROLE_WEIGHT
    IN  Clamp(score, 0, ScoreOne)

\* list.sort(key=score, reverse=True): stable, so that of two entries with
\* equal scores the one that came first stays first.
RECURSIVE InsertByScore(_, _)
InsertByScore(sorted, e) ==
    IF sorted = <<>> THEN <<e>>
    ELSE IF Head(sorted)[2] >= e[2]
         THEN <<Head(sorted)>> \o InsertByScore(Tail(sorted), e)
         ELSE <<e>> \o sorted

RECURSIVE SortByScoreDesc(_)
SortByScoreDesc(scored) ==
    IF scored = <<>> THEN <<>>
    ELSE InsertByScore(SortByScoreDesc(SubSeq(scored, 1, Len(scored) - 1)),
                       scored[Len(scored)])

\* ProtectedIndices with the recent window one message short
ProtectedIndices_ShortWindow(messages, always_keep_recent, always_keep_system) ==
    LET n == Len(messages)
        system == IF always_keep_system
                  THEN {i \in 1..n : "role" \in messages[i].keys
                                     /\ messages[i].role = "system"}
                  ELSE {}
        recent_start == Max(0, n - always_keep_recent)
    IN  system \cup {i \in 1..n : i > recent_start + 1}

\* The protected indices of select_messages_to_prune.
ProtectedIndices(messages, always_keep_recent, always_keep_system) ==
    LET n == Len(messages)
        system == IF always_keep_system
                  THEN {i \in 1..n : "role" \in messages[i].keys
                                     /\ messages[i].role = "system"}
                  ELSE {}
        recent_start == Max(0, n - always_keep_recent)
    IN  system \cup {i \in 1..n : i > recent_start}

\* select_messages_to_prune; nowAt[i] is the clock reading that scores
\* message i.  The result is the set of the indices to remove (the code
\* returns them as an ascending list).
select_messages_to_prune(messages, keep_count, always_keep_recent, always_keep_system, nowAt) ==
    LET n == Len(messages)
        protected_indices ==
            ProtectedIndices(messages, always_keep_recent, always_keep_system)
        remaining_slots == keep_count - Cardinality(protected_indices)
        unprotected == FilterIdx(n, 1, (1..n) \ protected_indices)
        scored == [k \in 1..Len(unprotected) |->
                    LET idx == unprotected[k]
                        msg == messages[idx]
                    IN  <<idx,
                          calculate_importance_score(
                              Get(msg, "content", EmptyText),
                              Get(msg, "role", "assistant"),
                              Get(msg, "timestamp", nowAt[idx]),
                              nowAt[idx],
                              Get(msg, "has_replies", FALSE))>>]
        sorted == SortByScoreDesc(scored)
        keep_indices == {sorted[k][1] : k \in 1..Min(remaining_slots, Len(sorted))}
    IN  IF n <= keep_count THEN {}
        ELSE IF remaining_slots <= 0 THEN (1..n) \ protected_indices
        ELSE IF unprotected = <<>> THEN {}
        ELSE {unprotected[k] : k \in 1..Len(unprotected)} \ keep_indices

(***************************************************************************)
(* context.py                                                              *)
(***************************************************************************)
DefaultMaxTokens == 180000
DefaultBufferTokens == 20000
DefaultKeepRecent == 10

\* ContextManager.__init__
ContextManager(max_tokens, buffer_tokens, always_keep_recent, always_keep_system) ==
    [max_tokens |-> max_tokens,
     buffer_tokens |-> buffer_tokens,
     always_keep_recent |-> always_keep_recent,
     always_keep_system |-> always_keep_system,
     effective_max_tokens |-> max_tokens - buffer_tokens]

\* A call reads the clock (datetime.utcnow()) many times.  The readings of
\* one call are numbered in the order in which they are taken: pass p of
\* _prune_messages (the iterations of the scan, then the final pruning)
\* first reads the clock once per message to build scored_messages, then
\* once per scored message inside calculate_importance_score.
BuildSlot(n, pass, i) == pass * 2 * n + i
ScoreSlot(n, pass, i) == pass * 2 * n + n + i
NumSlots(n) == 2 * n * (n + 2)

\* scored_messages of pass p
ScoredMessages(messages, pass, clk) ==
    LET n == Len(messages)
    IN  [i \in 1..n |->
           [keys |-> {"content", "role", "timestamp"},
            content |-> Get(messages[i], "content", EmptyText),
            role |-> Get(messages[i], "role", "assistant"),
            timestamp |-> Get(messages[i], "timestamp", clk[BuildSlot(n, pass, i)])]]

\* to_remove_indices of pass p for keep_count
ToRemove(cm, messages, keep_count, pass, clk) ==
    LET n == Len(messages)
    IN  select_messages_to_prune(
            ScoredMessages(messages, pass, clk),
            keep_count,
            cm.always_keep_recent,
            cm.always_keep_system,
            [i \in 1..n |-> clk[ScoreSlot(n, pass, i)]])

\* [msg for idx, msg in enumerate(messages) if idx not in to_remove_indices]
Without(messages, to_remove) ==
    LET kept == FilterIdx(Len(messages), 1, (1..Len(messages)) \ to_remove)
    IN  [k \in 1..Len(kept) |-> messages[kept[k]]]

\* for keep_count in range(max_keep, min_keep - 1, -1): ... break
\* The result is the value of best_keep and the number of passes taken.
RECURSIVE ScanKeepCount(_, _, _, _, _, _)
ScanKeepCount(cm, messages, keep_count, min_keep, pass, clk) ==
    IF keep_count < min_keep THEN [best_keep |-> min_keep, passes |-> pass]
    ELSE LET pruned == Without(messages, ToRemove(cm, messages, keep_count, pass, clk))
         IN  IF estimate_tokens_for_messages(pruned) <= cm.effective_max_tokens
             THEN [best_keep |-> keep_count, passes |-> pass + 1]
             ELSE ScanKeepCount(cm, messages, keep_count - 1, min_keep, pass + 1, clk)

min_keep(cm, messages) ==
    cm.always_keep_recent
    + Cardinality({i \in 1..Len(messages) :
                     "role" \in messages[i].keys /\ messages[i].role = "system"})

\* _prune_messages with pruned_count taken from best_keep
_prune_messages_CountFromKeep(cm, messages, clk) ==
    LET n == Len(messages)
        all == [kept |-> [i \in 1..n |-> i], messages |-> messages, pruned_count |-> 0]
    IN  IF messages = <<>> THEN all
        ELSE IF estimate_tokens_for_messages(messages) <= cm.effective_max_tokens
        THEN all
        ELSE LET scan == ScanKeepCount(cm, messages, n, min_keep(cm, messages), 0, clk)
                 to_remove_indices ==
                     ToRemove(cm, messages, scan.best_keep, scan.passes, clk)
             IN  [kept |-> FilterIdx(n, 1, (1..n) \ to_remove_indices),
                  messages |-> Without(messages, to_remove_indices),
                  pruned_count |-> n - scan.best_keep]

\* ContextManager._prune_messages.  The result names the retained messages
\* by their indices in the input (kept) next to the pair the code returns.
_prune_messages(cm, messages, clk) ==
    LET n == Len(messages)
        all == [kept |-> [i \in 1..n |-> i], messages |-> messages, pruned_count |-> 0]
    IN  IF messages = <<>> THEN all
        ELSE IF estimate_tokens_for_messages(messages) <= cm.effective_max_tokens
        THEN all
        ELSE LET scan == ScanKeepCount(cm, messages, n, min_keep(cm, messages), 0, clk)
                 to_remove_indices ==
                     ToRemove(cm, messages, scan.best_keep, scan.passes, clk)
             IN  [kept |-> FilterIdx(n, 1, (1..n) \ to_remove_indices),
                  messages |-> Without(messages, to_remove_indices),
                  pruned_count |-> Cardinality(to_remove_indices)]

\* "## Relevant Context from Memory:" and the "- " that starts a memory line
MemoryHeaderLen == 32
MemoryPrefixLen == 2

\* The memories included by the loop of _format_memories form a prefix of
\* the list, as the loop breaks at the first memory that does not fit; the
\* result is the length of that prefix.
RECURSIVE IncludedCount(_, _, _)
IncludedCount(memories, current_tokens, available_tokens) ==
    IF memories = <<>> THEN 0
    ELSE LET memory_text_len ==
                 MemoryPrefixLen + Get(Head(memories), "content", EmptyText).len
             memory_tokens == memory_text_len \div CharsPerToken
         IN  IF current_tokens + memory_tokens > available_tokens THEN 0
             ELSE 1 + IncludedCount(Tail(memories), current_tokens + memory_tokens,
                                    available_tokens)

\* "\n".join(memory_lines) for the header and the first k memories
JoinedLines(memories, k) ==
    Text(MemoryHeaderLen
           + SumSeq([i \in 1..k |->
                       1 + MemoryPrefixLen + Get(memories[i], "content", EmptyText).len]),
         UNION {Get(memories[i], "content", EmptyText).signals : i \in 1..k})

\* ContextManager._format_memories
_format_memories(memories, available_tokens) ==
    IF memories = <<>> \/ available_tokens <= 0
    THEN [memory_messages |-> <<>>, included_memories |-> <<>>]
    ELSE LET header == [keys |-> {"role", "content"}, role |-> "system",
                        content |-> Text(MemoryHeaderLen, {})]
             k == IncludedCount(memories, estimate_tokens_for_messages(<<header>>),
                                available_tokens)
         IN  IF k = 0
             THEN [memory_messages |-> <<>>, included_memories |-> <<>>]
             ELSE [memory_messages |->
                      <<[keys |-> {"role", "content"}, role |-> "system",
                         content |-> JoinedLines(memories, k)]>>,
                   included_memories |-> SubSeq(memories, 1, k)]

(***************************************************************************)
(* models.py                                                               *)
(***************************************************************************)
\* The fields of Memory that have no default.
MemoryRequired == {"agent_id", "session_id", "memory_type", "content", "embedding_text"}

\* Validation of ContextWindow(messages: list[Dict[str, str]], ...,
\* retrieved_memories: list[Memory]): a message dict validates when all its
\* values are strings (a timestamp is a datetime), a memory dict when it has
\* the required fields of Memory.
ContextWindowValidates(context_messages, memory_objects) ==
    /\ \A i \in 1..Len(context_messages) : "timestamp" \notin context_messages[i].keys
    /\ \A i \in 1..Len(memory_objects) : MemoryRequired \subseteq memory_objects[i].keys

(***************************************************************************)
(* context.py, continued                                                   *)
(***************************************************************************)
\* sum(1 for msg in context_messages if msg.get("role") == "system")
SystemCount(context_messages) ==
    Cardinality({i \in 1..Len(context_messages) :
                   "role" \in context_messages[i].keys
                   /\ context_messages[i].role = "system"})

\* InsertAt with the tail starting one element early
InsertAt_TailEarly(s, at, block) ==
    SubSeq(s, 1, Min(at, Len(s))) \o block \o SubSeq(s, Max(1, Min(at, Len(s))), Len(s))

\* context_messages[:system_count] + memory_messages + context_messages[system_count:]
InsertAt(s, at, block) ==
    SubSeq(s, 1, Min(at, Len(s))) \o block \o SubSeq(s, Min(at, Len(s)) + 1, Len(s))

\* ContextManager.prepare_context, lines 69-79: the copy of the messages,
\* pruned if its estimate exceeds the effective budget.  (_prune_messages
\* returns the list unchanged when it fits, so that the test of line 77 is
\* the test of its line 127.)
PruneIfNeeded(cm, messages, clk) ==
    IF estimate_tokens_for_messages(messages) > cm.effective_max_tokens
    THEN _prune_messages(cm, messages, clk)
    ELSE [kept |-> [i \in 1..Len(messages) |-> i], messages |-> messages,
          pruned_count |-> 0]

\* ContextManager.prepare_context, lines 81-105: the memory block and the
\* ContextWindow.  origin gives, for every message of the window, its index
\* in the input, and 0 for the memory block.
BuildWindow(cm, pruning, memories) ==
    LET current_tokens == estimate_tokens_for_messages(pruning.messages)
        formatted == IF memories # <<>>
                     THEN _format_memories(memories,
                                           cm.effective_max_tokens - current_tokens)
                     ELSE [memory_messages |-> <<>>, included_memories |-> <<>>]
        system_count == SystemCount(pruning.messages)
        context_messages ==
            IF formatted.memory_messages # <<>>
            THEN InsertAt(pruning.messages, system_count, formatted.memory_messages)
            ELSE pruning.messages
        origin ==
            IF formatted.memory_messages # <<>>
            THEN InsertAt(pruning.kept, system_count, <<0>>)
            ELSE pruning.kept
    IN  IF ContextWindowValidates(context_messages, formatted.included_memories)
        THEN [op |-> "prepare_context",
              raised |-> FALSE,
              messages |-> context_messages,
              total_tokens |-> estimate_tokens_for_messages(context_messages),
              pruned_count |-> pruning.pruned_count,
              retrieved_memories |-> formatted.included_memories,
              origin |-> origin]
        ELSE [op |-> "prepare_context", raised |-> TRUE]

\* ContextManager.should_prune
should_prune(cm, messages) ==
    estimate_tokens_for_messages(messages) > cm.effective_max_tokens

(***************************************************************************)
(* Inputs.                                                                 *)
(***************************************************************************)
Message(role, content) ==
    [keys |-> {"role", "content"}, role |-> role, content |-> content]

\* a message dict that also holds a timestamp (a datetime), as
\* prepare_context_with_storage builds it
StampedMessage(role, content, timestamp) ==
    [keys |-> {"role", "content", "timestamp"}, role |-> role, content |-> content,
     timestamp |-> timestamp]

\* {}
EmptyDict == [keys |-> {}]

SystemPrompt == Message("system", Text(12, {}))
UserLong == Message("user", Text(80, {}))
UserStamped == StampedMessage("user", Text(80, {}), 0)

MsgChoices == {SystemPrompt, UserLong, EmptyDict, UserStamped}

\* a dict with the fields of a Memory
MemoryDict(content) ==
    [keys |-> MemoryRequired, content |-> content]

\* {"role": "system", "content": "[Memory] ..."}, as LLMAgent builds it
MemoryPrefixedLen == 9
AgentMemoryDict(n) ==
    [keys |-> {"role", "content"}, role |-> "system",
     content |-> Text(MemoryPrefixedLen + n, {})]

MemChoices == {MemoryDict(Text(1, {})), MemoryDict(Text(25, {"error"})), AgentMemoryDict(3)}

SmallConfigs ==
    {ContextManager(max_tokens, 10, always_keep_recent, always_keep_system) :
        max_tokens \in {34, 65}, always_keep_recent \in {1, 2},
        always_keep_system \in BOOLEAN}

\* ContextManager(max_tokens=100) and the small conversation of test_should_prune
TestConfig == ContextManager(100, DefaultBufferTokens, DefaultKeepRecent, TRUE)
TestSmallMessages ==
    <<Message("user", Text(2, {})), Message("assistant", Text(5, {}))>>

\* max_tokens=1000, buffer_tokens=200, always_keep_recent=2 and 10 messages
\* of 111 tokens each
ScenarioConfig == ContextManager(1000, 200, 2, TRUE)
ScenarioMessages == [i \in 1..10 |-> Message("user", Text(400, {}))]

(***************************************************************************)
(* State.                                                                  *)
(***************************************************************************)
VARIABLES
    cm,         \* the ContextManager
    messages,   \* the caller's message list
    memories,   \* the memories argument of the call that returned last
    now,        \* the clock (datetime.utcnow()), in hours
    ret,        \* what the call in progress returned; Idle between calls
    seen,       \* the retained index lists of the prepare_context calls so far
    committed,  \* the database file: what the last commit left
    working,    \* the database as the connection sees it, with the changes
                \* of its open transaction
    orch,       \* the Orchestrator
    agent,      \* the Agent objects
    calls,      \* the update_session coroutines that are suspended between
                \* their read and their write
    created     \* the number of Message objects the callers have constructed

vars == <<cm, messages, memories, now, ret, seen, committed, working, orch, agent, calls, created>>

\* the database after initialize(): the tables exist and are empty; the
\* rows of messages and conversation_history are kept in the order of their
\* insertion
EmptyDb ==
    [memories |-> {}, fts |-> {}, seq |-> 0, sessions |-> {}, messages |-> <<>>,
     conversation_history |-> <<>>, agent_states |-> {}]

Idle == [op |-> "idle"]

\* the three Agent objects: e1 and e1b carry the same name
AgentObjects == {"e1", "e1b", "e2"}

\* EchoAgent(name): Agent.id = config.name
AgentName(object) == IF object = "e2" THEN "echo2" ELSE "echo1"

\* a dict without items
NoItems == [key \in {} |-> "none"]

\* Agent.__init__
NewAgent(object) ==
    [id |-> AgentName(object), inbox |-> <<>>, running |-> FALSE,
     message_callback |-> FALSE, _state |-> NoItems,
     memory_manager |-> FALSE, session_id |-> "none"]

\* Orchestrator.__init__; agents maps the registered names to their objects
NewOrchestrator ==
    [agents |-> NoItems, message_history |-> <<>>, running |-> FALSE,
     _agent_tasks |-> {}, memory_manager |-> FALSE, session_id |-> "none"]

\* the callers of update_session
Callers == {"c1", "c2"}

NotCalling == [pc |-> "none"]

\* the objects after construction, no call in progress
InitObjects ==
    /\ orch = NewOrchestrator
    /\ agent = [object \in AgentObjects |-> NewAgent(object)]
    /\ calls = [caller \in Callers |-> NotCalling]
    /\ created = 0

Init ==
    /\ \/ /\ cm \in SmallConfigs
          /\ messages \in SeqsUpTo(MsgChoices, MaxMsgs)
       \/ /\ cm = TestConfig
          /\ messages = TestSmallMessages
       \/ /\ cm = ScenarioConfig
          /\ messages = ScenarioMessages
    /\ memories = <<>>
    /\ now = 0
    /\ ret = Idle
    /\ seen = {}
    /\ committed = EmptyDb
    /\ working = EmptyDb
    /\ InitObjects

\* The clock readings of one call: the clock advances by at most one hour
\* per call, before the reading numbered tickAt.
Readings(n, tickAt) ==
    [slot \in 1..NumSlots(n) |-> IF slot >= tickAt THEN now + 1 ELSE now]

TickChoices(n) ==
    IF now < MaxClock THEN 1..(NumSlots(n) + 1) ELSE {NumSlots(n) + 1}

\* the indices of the input messages that a window retains
Retained(window) == SelectSeq(window.origin, LAMBDA i : i # 0)

\* The outcomes of lines 69-79 over the clock readings a call may get, each
\* with the clock after the call.
PruneOutcomes ==
    LET n == Len(messages)
    IN  {[pruning |-> PruneIfNeeded(cm, messages, Readings(n, tickAt)),
          clock |-> IF tickAt <= NumSlots(n) THEN now + 1 ELSE now] :
            tickAt \in TickChoices(n)}

PrepareContext ==
    /\ ret = Idle
    /\ \E outcome \in PruneOutcomes :
         \E mems \in SeqsUpTo(MemChoices, MaxMems) :
           LET window == BuildWindow(cm, outcome.pruning, mems)
           IN  /\ ret' = window
               /\ memories' = mems
               /\ now' = outcome.clock
               /\ seen' = IF window.raised THEN seen
                          ELSE seen \cup {Retained(window)}
    /\ UNCHANGED <<cm, messages, committed, working, orch, agent, calls, created>>

ShouldPrune ==
    /\ ret = Idle
    /\ ret' = [op |-> "should_prune", value |-> should_prune(cm, messages)]
    /\ UNCHANGED <<cm, messages, memories, now, seen, committed, working, orch, agent, calls, created>>

EstimateTokensForMessages ==
    /\ ret = Idle
    /\ ret' = [op |-> "estimate_tokens_for_messages",
               value |-> estimate_tokens_for_messages(messages)]
    /\ UNCHANGED <<cm, messages, memories, now, seen, committed, working, orch, agent, calls, created>>

\* the caller takes the returned value
Return ==
    /\ ret # Idle
    /\ ret' = Idle
    /\ memories' = <<>>
    /\ UNCHANGED <<cm, messages, now, seen, committed, working, orch, agent, calls, created>>

Next ==
    \/ PrepareContext
    \/ ShouldPrune
    \/ EstimateTokensForMessages
    \/ Return

Spec == Init /\ [][Next]_vars

(***************************************************************************)
(* Properties of prepare_context.                                          *)
(***************************************************************************)
\* a prepare_context call has returned a window
Returned == ret.op = "prepare_context" /\ ~ret.raised

\* The protected set as the specification words it: the system messages
\* (when always_keep_system) and the last always_keep_recent messages.
ProtectedSet ==
    LET n == Len(messages)
    IN  {i \in 1..n :
           \/ i > n - cm.always_keep_recent
           \/ /\ cm.always_keep_system
              /\ "role" \in messages[i].keys
              /\ messages[i].role = "system"}

\* the messages at the indices of I, in their order
Restrict(I) ==
    LET idx == FilterIdx(Len(messages), 1, I)
    IN  [k \in 1..Len(idx) |-> messages[idx[k]]]

RetainedSet == {ret.origin[k] : k \in 1..Len(ret.origin)} \ {0}

\* C1: when the protected set alone fits the effective budget, a call
\* without memories returns a window of at most the effective budget.
C1_ProtectedFitsThenWithinBudget ==
    (Returned /\ memories = <<>>
       /\ estimate_tokens_for_messages(Restrict(ProtectedSet)) <= cm.effective_max_tokens)
    => ret.total_tokens <= cm.effective_max_tokens

\* C2: every protected message of the input is present in the returned
\* window.
C2_ProtectedNeverRemoved ==
    Returned =>
        \A i \in ProtectedSet :
            \E k \in 1..Len(ret.messages) :
                ret.origin[k] = i /\ ret.messages[k] = messages[i]

\* C2 witness: a call pruned messages of a conversation that holds a system
\* message outside the recent window.
C2_Witness ==
    /\ Returned
    /\ ret.pruned_count > 0
    /\ cm.always_keep_system
    /\ \E i \in ProtectedSet : i <= Len(messages) - cm.always_keep_recent

\* C3: when the retained conversation fits the effective budget, so does
\* the returned window with its memory block.
C3_InjectionWithinBudget ==
    (Returned
       /\ estimate_tokens_for_messages(Restrict(RetainedSet)) <= cm.effective_max_tokens)
    => ret.total_tokens <= cm.effective_max_tokens

\* C4: prepare_context never raises.
C4_NeverRaises ==
    ret.op = "prepare_context" => ~ret.raised

\* C5: the retained messages appear in the window in their input order,
\* each once.
C5_StableOrder ==
    Returned =>
        /\ \A k \in 1..Len(ret.messages) :
              ret.origin[k] # 0 => ret.messages[k] = messages[ret.origin[k]]
        /\ \A j, k \in 1..Len(ret.origin) :
              (j < k /\ ret.origin[j] # 0 /\ ret.origin[k] # 0)
              => ret.origin[j] < ret.origin[k]

\* C5 witness: a window that lost a message from the middle of the input
\* and holds a memory block between retained messages.
C5_Witness ==
    /\ Returned
    /\ ret.retrieved_memories # <<>>
    /\ Len(Retained(ret)) >= 2
    /\ \E i \in 1..Len(messages) :
          /\ i \notin RetainedSet
          /\ \E j, k \in RetainedSet : j < i /\ i < k

\* the length of the leading run of system messages of s
RECURSIVE LeadingSystemRun(_)
LeadingSystemRun(s) ==
    IF s = <<>> THEN 0
    ELSE IF "role" \in Head(s).keys /\ Head(s).role = "system"
         THEN 1 + LeadingSystemRun(Tail(s))
         ELSE 0

\* C6: when a memory was included, the window holds exactly one memory
\* block, right after the leading run of system messages of the retained
\* conversation.
C6_BlockAfterLeadingSystem ==
    (Returned /\ ret.retrieved_memories # <<>>)
    => /\ Cardinality({k \in 1..Len(ret.origin) : ret.origin[k] = 0}) = 1
       /\ ret.origin[LeadingSystemRun(Restrict(RetainedSet)) + 1] = 0

\* C7: pruned_count is the number of input messages absent from the window,
\* it is 0 when the input fits, and in the scenario the last 2 messages are
\* present and the total is at most 800.
C7_PrunedCount ==
    Returned =>
        /\ ret.pruned_count = Len(messages) - Cardinality(RetainedSet)
        /\ estimate_tokens_for_messages(messages) <= cm.effective_max_tokens
           => ret.pruned_count = 0
        /\ (cm = ScenarioConfig /\ messages = ScenarioMessages)
           => /\ {Len(messages) - 1, Len(messages)} \subseteq RetainedSet
              /\ ret.total_tokens <= 800

\* C7 witness: the scenario returned, with 3 of its 10 messages pruned.
C7_Witness ==
    /\ Returned
    /\ cm = ScenarioConfig
    /\ messages = ScenarioMessages
    /\ ret.pruned_count = 3

\* what a score is computed from, the clock apart
ScoreInputs(msg) ==
    <<Get(msg, "content", EmptyText), Get(msg, "role", "assistant"),
      "timestamp" \in msg.keys, Get(msg, "timestamp", 0)>>

\* C8: all calls on the same arguments retain the same messages, and of two
\* unprotected messages of equal score the later one is retained only if
\* the earlier one is.
C8_RetentionDeterministic ==
    /\ Cardinality(seen) <= 1
    /\ Returned =>
          \A i, j \in (1..Len(messages)) \ ProtectedSet :
              (i < j /\ ScoreInputs(messages[i]) = ScoreInputs(messages[j])
                 /\ j \in RetainedSet)
              => i \in RetainedSet

\* C9: with ContextManager(max_tokens=100), should_prune is false for the
\* small conversation of the test, whose estimate is below max_tokens.
C9_SmallConversationNotPruned ==
    (ret.op = "should_prune" /\ cm = TestConfig /\ messages = TestSmallMessages)
    => ret.value = FALSE

(***************************************************************************)
(* Properties of the token estimator.                                      *)
(***************************************************************************)
\* est(text): 0 for empty text, otherwise max(1, len(text) // 4)
Est(len) == IF len = 0 THEN 0 ELSE IF len < 4 THEN 1 ELSE len \div 4

\* C10: estimate_tokens_for_messages is 0 for the empty list and otherwise
\* 5 + the sum of est(role) + est(content) + 10, a missing role or content
\* counting as empty; the call changes neither the list nor the manager.
C10_EstimateClosedForm ==
    /\ [](ret.op = "estimate_tokens_for_messages" =>
            ret.value =
              IF Len(messages) = 0 THEN 0
              ELSE 5 + SumSeq([i \in 1..Len(messages) |->
                     (IF "role" \in messages[i].keys
                      THEN Est(RoleLen(messages[i].role)) ELSE 0)
                     + (IF "content" \in messages[i].keys
                        THEN Est(messages[i].content.len) ELSE 0)
                     + 10]))
    /\ [][ret'.op = "estimate_tokens_for_messages"
            => UNCHANGED <<cm, messages, memories, now, seen>>]_vars

\* C10 witness: the estimate of a list that holds a message without role
\* and content, and a text shorter than 4 characters.
C10_Witness ==
    /\ ret.op = "estimate_tokens_for_messages"
    /\ ret.value > 0
    /\ \/ \E i \in 1..Len(messages) : messages[i].keys = {}
       \/ \E i \in 1..Len(messages) :
             "content" \in messages[i].keys /\ messages[i].content.len \in 1..3

(***************************************************************************)
(* The importance scorer applied to chosen inputs.                         *)
(***************************************************************************)
\* math.exp raises OverflowError when its result exceeds the range of a
\* double, that is for an argument above 709.78: -time_diff_hours / 24.0
\* is above it from 17035 hours on.
ExpOverflowHours == 17035

\* line 56 raises
exp_overflows(time_diff_hours) == 0 - time_diff_hours >= ExpOverflowHours

AllKeywordsText == Text(120, high_importance_keywords \cup {"question", "code"})

ScoreContents ==
    {EmptyText, Text(5, {}), Text(6, {"bullet"}), Text(30, {"bullet"}),
     Text(30, {"list"}), Text(30, {"question", "error"}),
     Text(600, {"url", "code"}), AllKeywordsText}

ScoreRoles == {"user", "system", "assistant", "tool"}

\* timestamps in hours relative to the clock: past, present, and future ones
\* up to two years ahead
ScoreTimestamps == {0 - 48, 0 - 1, 0, 1, 30, ExpOverflowHours - 1, ExpOverflowHours}

InitScore ==
    /\ cm = TestConfig
    /\ messages = <<>>
    /\ memories = <<>>
    /\ now = 0
    /\ ret = Idle
    /\ seen = {}
    /\ committed = EmptyDb
    /\ working = EmptyDb
    /\ InitObjects

CalculateImportanceScore ==
    /\ ret = Idle
    /\ \E content \in ScoreContents, role \in ScoreRoles,
          timestamp \in ScoreTimestamps, has_replies \in BOOLEAN :
         ret' = IF exp_overflows(now - timestamp)
                THEN [op |-> "calculate_importance_score", raised |-> TRUE,
                      content |-> content, role |-> role,
                      timestamp |-> timestamp, has_replies |-> has_replies]
                ELSE [op |-> "calculate_importance_score", raised |-> FALSE,
                      content |-> content, role |-> role,
                      timestamp |-> timestamp, has_replies |-> has_replies,
                      value |-> calculate_importance_score(
                                    content, role, timestamp, now, has_replies)]
    /\ UNCHANGED <<cm, messages, memories, now, seen, committed, working, orch, agent, calls, created>>

CalculateContentImportance ==
    /\ ret = Idle
    /\ \E content \in ScoreContents :
         ret' = [op |-> "_calculate_content_importance", content |-> content,
                 value |-> _calculate_content_importance(content)]
    /\ UNCHANGED <<cm, messages, memories, now, seen, committed, working, orch, agent, calls, created>>

NextScore ==
    \/ CalculateImportanceScore
    \/ CalculateContentImportance
    \/ Return

SpecScore == InitScore /\ [][NextScore]_vars

\* C11: calculate_importance_score returns a value in [0.0, 1.0] for every
\* content, role, has_replies flag and pair of timestamp and current time,
\* timestamps later than the current time included.
C11_ScoreInUnitInterval ==
    ret.op = "calculate_importance_score"
    => (~ret.raised /\ ret.value >= 0 /\ ret.value <= ScoreOne)

\* The content importance as the specification words it: 0.5 plus the
\* bonuses, clamped to [0, 1], for every content.
ClaimedContentImportance(content) ==
    Clamp(5000
          + 1000 * Cardinality(content.signals \cap high_importance_keywords)
          + (IF "question" \in content.signals THEN 1500 ELSE 0)
          + (IF "code" \in content.signals THEN 1000 ELSE 0)
          + (IF {"list", "bullet"} \cap content.signals # {} THEN 500 ELSE 0)
          + (IF "url" \in content.signals THEN 500 ELSE 0)
          + (IF content.len > 500 THEN 500 ELSE 0)
          - (IF content.len < 20 THEN 1000 ELSE 0),
          0, One)

\* C12: for every content, the empty string included, the content
\* importance is the clamped sum of 0.5 and the bonuses for keywords,
\* '?', backtick, list-like line, URL and length.
C12_ContentImportanceFormula ==
    ret.op = "_calculate_content_importance"
    => ret.value = ClaimedContentImportance(ret.content)

(***************************************************************************)
(* query.py.  A text is here the sequence of its words, the maximal runs   *)
(* of word characters that both re.findall(r'\b\w+\b', ...) and the        *)
(* substitution of _preprocess_query leave; "ok??" is <<"ok">> and "??"    *)
(* is a non-empty text without words.  Words are ASCII letters.            *)
(***************************************************************************)
MaxWords == 4
MaxTopK == 2

\* str.lower() on the words of the model
Lower(word) ==
    CASE word = "Error" -> "error"
      [] word = "Parser" -> "parser"
      [] word = "OR" -> "or"
      [] OTHER -> word

\* len(word) of the lowercase words of the model
WordLen(word) ==
    CASE word = "error" -> 5
      [] word = "parser" -> 6
      [] word = "lexer" -> 5
      [] word = "this" -> 4
      [] word = "generating" -> 10
      [] word \in {"response", "provider"} -> 8
      [] word = "down" -> 4
      [] word = "bug" -> 3
      [] word \in {"or", "ok", "in"} -> 2

stop_words ==
    {"the", "a", "an", "and", "or", "but", "in", "on", "at", "to", "for",
     "of", "with", "by", "from", "as", "is", "was", "are", "were", "be",
     "been", "being", "have", "has", "had", "do", "does", "did", "will",
     "would", "could", "should", "may", "might", "can", "i", "you", "he",
     "she", "it", "we", "they", "what", "which", "who", "when", "where",
     "why", "how", "this", "that", "these", "those"}

\* a text: its words, and whether it is the empty string
Words(ws) == [words |-> ws, empty |-> ws = <<>>]
\* a non-empty text without a word, such as "??"
Punctuation == [words |-> <<>>, empty |-> FALSE]

\* _preprocess_query: lowercase, special characters to spaces, whitespace
\* collapsed; the result is the sequence of the lowercased words
_preprocess_query(query) ==
    IF query.empty THEN <<>>
    ELSE [i \in 1..Len(query.words) |-> Lower(query.words[i])]

\* the number of occurrences of w in s
Count(s, w) == Cardinality({i \in 1..Len(s) : s[i] = w})

\* Counter(filtered_words): the distinct words in order of first occurrence
RECURSIVE CounterKeys(_, _)
CounterKeys(s, have) ==
    IF s = <<>> THEN <<>>
    ELSE IF Head(s) \in have THEN CounterKeys(Tail(s), have)
         ELSE <<Head(s)>> \o CounterKeys(Tail(s), have \cup {Head(s)})

\* most_common without the sort: the keys as the Counter holds them
most_common_InsertionOrder(s, n) ==
    LET keys == CounterKeys(s, {})
    IN  IF n <= 0 THEN <<>> ELSE SubSeq(keys, 1, Min(n, Len(keys)))

\* sorted(..., key=count, reverse=True) is stable: a key goes behind the
\* keys with a count at least its own
RECURSIVE InsertByCount(_, _, _)
InsertByCount(sorted, w, s) ==
    IF sorted = <<>> THEN <<w>>
    ELSE IF Count(s, Head(sorted)) >= Count(s, w)
         THEN <<Head(sorted)>> \o InsertByCount(Tail(sorted), w, s)
         ELSE <<w>> \o sorted

RECURSIVE SortByCountDesc(_, _)
SortByCountDesc(keys, s) ==
    IF keys = <<>> THEN <<>>
    ELSE InsertByCount(SortByCountDesc(SubSeq(keys, 1, Len(keys) - 1), s),
                       keys[Len(keys)], s)

\* Counter.most_common(n): heapq.nlargest(n, items, key=count), which is
\* sorted(items, key=count, reverse=True)[:n]; empty for n <= 0
most_common(s, n) ==
    LET keys == SortByCountDesc(CounterKeys(s, {}), s)
    IN  IF n <= 0 THEN <<>> ELSE SubSeq(keys, 1, Min(n, Len(keys)))

\* the filter of lines 194-197
eligible(word) == word \notin stop_words /\ WordLen(word) > 3

extract_keywords(text, top_k) ==
    IF text.empty THEN <<>>
    ELSE LET words == [i \in 1..Len(text.words) |-> Lower(text.words[i])]
             filtered_words == SelectSeq(words, eligible)
         IN  most_common(filtered_words, top_k)

Vocabulary == {"Error", "error", "parser", "this", "bug", "lexer"}

InitQuery == InitScore

ExtractKeywords ==
    /\ ret = Idle
    /\ \E ws \in SeqsUpTo(Vocabulary, MaxWords), top_k \in 0..MaxTopK :
         ret' = [op |-> "extract_keywords", text |-> Words(ws), top_k |-> top_k,
                 value |-> extract_keywords(Words(ws), top_k)]
    /\ UNCHANGED <<cm, messages, memories, now, seen, committed, working, orch, agent, calls, created>>

ExtractKeywordsNoWords ==
    /\ ret = Idle
    /\ \E top_k \in 0..MaxTopK :
         ret' = [op |-> "extract_keywords", text |-> Punctuation, top_k |-> top_k,
                 value |-> extract_keywords(Punctuation, top_k)]
    /\ UNCHANGED <<cm, messages, memories, now, seen, committed, working, orch, agent, calls, created>>

NextQuery ==
    \/ ExtractKeywords
    \/ ExtractKeywordsNoWords
    \/ Return

SpecQuery == InitQuery /\ [][NextQuery]_vars

\* the lowercased words of the text of the call
CallWords == [i \in 1..Len(ret.text.words) |-> Lower(ret.text.words[i])]

\* the place of the first occurrence of w among the words of the call
FirstAt(w) == CHOOSE i \in 1..Len(CallWords) :
                  CallWords[i] = w /\ \A j \in 1..(i - 1) : CallWords[j] # w

\* w ranks before v: it is more frequent, or as frequent and met earlier
RanksBefore(w, v) ==
    \/ Count(CallWords, w) > Count(CallWords, v)
    \/ Count(CallWords, w) = Count(CallWords, v) /\ FirstAt(w) < FirstAt(v)

\* C18: extract_keywords returns at most top_k distinct lowercase tokens of
\* the text, none a stop word or of length <= 3, by decreasing frequency
\* with ties in order of first occurrence; every omitted token is a stop
\* word, too short, or ranks below the returned ones; empty text gives [].
C18_ExtractKeywords ==
    ret.op = "extract_keywords" =>
        LET kw == ret.value
            returned == {kw[i] : i \in 1..Len(kw)}
            tokens == {CallWords[i] : i \in 1..Len(CallWords)}
        IN  /\ Len(kw) <= ret.top_k
            /\ Cardinality(returned) = Len(kw)
            /\ returned \subseteq tokens
            /\ \A w \in returned : w \notin stop_words /\ WordLen(w) > 3
            /\ \A i, j \in 1..Len(kw) : i < j => RanksBefore(kw[i], kw[j])
            /\ \A w \in tokens \ returned :
                  \/ w \in stop_words
                  \/ WordLen(w) <= 3
                  \/ Len(kw) = ret.top_k /\ \A v \in returned : RanksBefore(v, w)
            /\ ret.text.empty => kw = <<>>

\* C18 witness: a text with a capitalised word, a stop word and a short
\* word, where two keywords tie and the later of them is left out.
C18_Witness ==
    /\ ret.op = "extract_keywords"
    /\ Len(ret.value) = ret.top_k
    /\ ret.top_k >= 1
    /\ "Error" \in {ret.text.words[i] : i \in 1..Len(ret.text.words)}
    /\ "this" \in {ret.text.words[i] : i \in 1..Len(ret.text.words)}
    /\ "bug" \in {ret.text.words[i] : i \in 1..Len(ret.text.words)}
    /\ \E w \in {CallWords[i] : i \in 1..Len(CallWords)} :
          /\ eligible(w)
          /\ w \notin {ret.value[i] : i \in 1..Len(ret.value)}
          /\ Count(CallWords, w) = Count(CallWords, ret.value[Len(ret.value)])

(***************************************************************************)
(* storage/sqlite.py and manager.py: the memories table and its full-text  *)
(* index.  One connection serves every caller: the changes of a statement  *)
(* are in `working` at once and reach `committed` with the next commit on  *)
(* the connection, whoever issues it.  A memory's content is the sequence  *)
(* of its words; scores are in units of 1/10000; created_at is ordered as  *)
(* the ids.                                                                *)
(***************************************************************************)
MaxMemories == 2
MaxAccess == 1

Agents == {"a1", "a2"}

\* last_accessed of a memory that was never accessed (NULL)
NeverAccessed == 0 - 1

\* Memory(...): the bounds ge=0.0, le=1.0 of importance_score
MemoryValidates(importance_score) ==
    importance_score >= 0 /\ importance_score <= One

\* the tokens the index keeps of a text (tokenizer unicode61: lowercased)
Terms(content) == {Lower(content[i]) : i \in 1..Len(content)}

\* INSERT INTO memories on a table declared without AUTOINCREMENT: the id
\* is one more than the largest id in the table
InsertMemoryRow_MaxRowid(db, memory) ==
    LET ids == {m.id : m \in db.memories}
        largest == IF ids = {} THEN 0 ELSE CHOOSE i \in ids : \A j \in ids : j <= i
    IN  [db EXCEPT !.seq = db.seq + 1,
                   !.memories = @ \cup {[id |-> largest + 1,
                                         agent_id |-> memory.agent_id,
                                         session_id |-> memory.session_id,
                                         memory_type |-> memory.memory_type,
                                         content |-> memory.content,
                                         importance_score |-> memory.importance_score,
                                         access_count |-> 0,
                                         last_accessed |-> NeverAccessed]}]

\* lines 454-473: INSERT INTO memories, the id from AUTOINCREMENT
InsertMemoryRow(db, memory) ==
    [db EXCEPT !.seq = db.seq + 1,
               !.memories = @ \cup {[id |-> db.seq + 1,
                                     agent_id |-> memory.agent_id,
                                     session_id |-> memory.session_id,
                                     memory_type |-> memory.memory_type,
                                     content |-> memory.content,
                                     importance_score |-> memory.importance_score,
                                     access_count |-> 0,
                                     last_accessed |-> NeverAccessed]}]

\* lines 476-482: INSERT INTO memories_fts
InsertIndexEntry(db, rowid, memory) ==
    [db EXCEPT !.fts = @ \cup {[rowid |-> rowid, terms |-> Terms(memory.content)]}]

\* The alternatives of an FTS5 query: the runs of terms between the OR
\* operators; terms that follow each other are combined with AND.  Only
\* the upper-case word is the operator.
RECURSIVE OrGroups(_, _)
OrGroups(query, group) ==
    IF query = <<>> THEN <<group>>
    ELSE IF Head(query) = "OR" THEN <<group>> \o OrGroups(Tail(query), <<>>)
         ELSE OrGroups(Tail(query), Append(group, Head(query)))

\* fts5: syntax error, on the empty query and on an OR without operand
fts_syntax_error(query) ==
    \E i \in 1..Len(OrGroups(query, <<>>)) : OrGroups(query, <<>>)[i] = <<>>

\* memories_fts MATCH ?
fts_match(query, terms) ==
    \E i \in 1..Len(OrGroups(query, <<>>)) :
        Terms(OrGroups(query, <<>>)[i]) \subseteq terms

\* the rows that the SELECT of lines 497-510 finds; memory_type "any" is None
Matching(db, agent_id, query, memory_type, min_importance) ==
    {m \in db.memories :
        /\ m.agent_id = agent_id
        /\ m.importance_score >= min_importance
        /\ memory_type # "any" => m.memory_type = memory_type
        /\ \E e \in db.fts : e.rowid = m.id /\ fts_match(query, e.terms)}

\* ORDER BY m.importance_score DESC, m.created_at DESC
RECURSIVE OrderRows(_)
OrderRows(rows) ==
    IF rows = {} THEN <<>>
    ELSE LET first == CHOOSE m \in rows : \A o \in rows :
                         \/ m.importance_score > o.importance_score
                         \/ m.importance_score = o.importance_score /\ m.id >= o.id
         IN  <<first>> \o OrderRows(rows \ {first})

\* SQLiteStorage.retrieve_memories, for a query without syntax error
storage_retrieve_memories(db, agent_id, query, memory_type, limit, min_importance) ==
    LET rows == OrderRows(Matching(db, agent_id, query, memory_type, min_importance))
    IN  SubSeq(rows, 1, Min(limit, Len(rows)))

\* update_memory_access without the WHERE clause: every row is counted
update_memory_access_AllRows(db, ids, at) ==
    [db EXCEPT !.memories =
        {[m EXCEPT !.access_count = @ + 1, !.last_accessed = at] : m \in db.memories}]

\* SQLiteStorage.update_memory_access for each of ids, before the commits
update_memory_access(db, ids, at) ==
    [db EXCEPT !.memories =
        {IF m.id \in ids
         THEN [m EXCEPT !.access_count = @ + 1, !.last_accessed = at]
         ELSE m : m \in db.memories}]

\* SQLiteStorage.delete_memories, lines 556-571, before the commit
delete_rows(db, agent_id, memory_ids) ==
    [db EXCEPT !.fts = {e \in @ : e.rowid \notin memory_ids},
               !.memories = {m \in @ : ~(m.agent_id = agent_id /\ m.id \in memory_ids)}]

\* MemoryManager.retrieve_memories on the connection: the memories found,
\* the access of each recorded and committed.  Without a memory found no
\* statement writes and nothing is committed.
manager_retrieve_memories(agent_id, query, memory_type, limit, min_importance) ==
    IF fts_syntax_error(query)
    THEN [raised |-> TRUE, found |-> <<>>, working |-> working, committed |-> committed]
    ELSE LET found == storage_retrieve_memories(working, agent_id, query, memory_type,
                                                 limit, min_importance)
             ids == {found[i].id : i \in 1..Len(found)}
             after == update_memory_access(working, ids, now)
         IN  [raised |-> FALSE, found |-> found, working |-> after,
              committed |-> IF found = <<>> THEN committed ELSE after]

\* QueryEngine.search: one MemoryManager.retrieve_memories call with the
\* preprocessed query
search(agent_id, query, memory_type, limit, min_importance) ==
    manager_retrieve_memories(agent_id, _preprocess_query(query), memory_type, limit,
                              min_importance)

\* " OR ".join(keywords)
RECURSIVE JoinOr(_)
JoinOr(keywords) ==
    IF Len(keywords) <= 1 THEN keywords
    ELSE <<Head(keywords), "OR">> \o JoinOr(Tail(keywords))

\* QueryEngine.search_by_keywords; `searches` lists the calls of search
search_by_keywords(agent_id, keywords, memory_type, limit, min_importance) ==
    IF keywords = <<>>
    THEN [raised |-> FALSE, found |-> <<>>, working |-> working,
          committed |-> committed, searches |-> <<>>]
    ELSE LET query == Words(JoinOr(keywords))
             r == search(agent_id, query, memory_type, limit, min_importance)
         IN  [raised |-> r.raised, found |-> r.found, working |-> r.working,
              committed |-> r.committed,
              searches |-> <<[query |-> query, min_importance |-> min_importance]>>]

\* retrieve_for_message without the fallback of lines 242-249
retrieve_for_message_NoFallback(agent_id, message_content, limit) ==
    search_by_keywords(agent_id, extract_keywords(message_content, 5), "any", limit, 4000)

\* MemoryRetriever.retrieve_for_message
retrieve_for_message(agent_id, message_content, limit) ==
    LET keywords == extract_keywords(message_content, 5)
    IN  IF keywords = <<>>
        THEN LET r == search(agent_id, message_content, "any", limit, 4000)
             IN  [raised |-> r.raised, found |-> r.found, working |-> r.working,
                  committed |-> r.committed,
                  searches |-> <<[query |-> message_content, min_importance |-> 4000]>>]
        ELSE search_by_keywords(agent_id, keywords, "any", limit, 4000)

\* the arguments of the store_memory calls
MemoryArgs(agent_id, session_id, memory_type, content, importance_score) ==
    [agent_id |-> agent_id, session_id |-> session_id, memory_type |-> memory_type,
     content |-> content, importance_score |-> importance_score]

StoreChoices ==
    {MemoryArgs("a1", "s1", "episodic", <<"Error", "in", "parser">>, 5000),
     MemoryArgs("a2", "s1", "episodic", <<"error", "in", "lexer">>, 5000),
     MemoryArgs("a1", "s1", "semantic", <<"error", "or", "bug">>, 3000),
     MemoryArgs("a1", "s1", "episodic", <<"bug">>, 15000),
     MemoryArgs("a2", "s1", "episodic", <<"bug">>, 0 - 1000)}

QueryChoices == {<<"error">>, <<"error", "OR", "bug">>, <<>>}

KeywordChoices == {<<>>, <<"bug">>, <<"error", "bug">>, <<"parser", "lexer">>}

MessageChoices ==
    {Words(<<"ok">>), Words(<<>>), Punctuation, Words(<<"Parser", "error">>),
     Words(<<"error">>)}

InitStore == InitScore

\* the access counter of every found memory is below the bound
CanAccess(found) == \A i \in 1..Len(found) : found[i].access_count < MaxAccess

\* MemoryManager.store_memory.  The statement that inserts the index entry
\* may raise (the task is cancelled at the await, the disk is full): the
\* call then ends between the row insert and the commit.
StoreMemory ==
    /\ ret = Idle
    /\ working.seq < MaxMemories
    /\ \E memory \in StoreChoices, index_raises \in BOOLEAN :
         IF ~MemoryValidates(memory.importance_score)
         THEN /\ ret' = [op |-> "store_memory", raised |-> TRUE,
                         stage |-> "validation", memory |-> memory]
              /\ UNCHANGED <<working, committed>>
         ELSE LET row == InsertMemoryRow(working, memory)
                  indexed == InsertIndexEntry(row, row.seq, memory)
              IN  IF index_raises
                  THEN /\ working' = row
                       /\ UNCHANGED committed
                       /\ ret' = [op |-> "store_memory", raised |-> TRUE,
                                  stage |-> "index", memory |-> memory]
                  ELSE /\ working' = indexed
                       /\ committed' = indexed
                       /\ ret' = [op |-> "store_memory", raised |-> FALSE,
                                  stage |-> "done", memory |-> memory,
                                  memory_id |-> row.seq]
    /\ UNCHANGED <<cm, messages, memories, now, seen, orch, agent, calls, created>>

RetrieveMemories ==
    /\ ret = Idle
    /\ \E agent_id \in Agents, query \in QueryChoices,
          memory_type \in {"any", "semantic"}, limit \in {1, 10},
          min_importance \in {0, 4000} :
         LET r == manager_retrieve_memories(agent_id, query, memory_type, limit,
                                            min_importance)
         IN  /\ CanAccess(r.found)
             /\ working' = r.working
             /\ committed' = r.committed
             /\ ret' = [op |-> "retrieve_memories", raised |-> r.raised,
                        agent_id |-> agent_id, query |-> query,
                        memory_type |-> memory_type, limit |-> limit,
                        min_importance |-> min_importance, found |-> r.found]
    /\ UNCHANGED <<cm, messages, memories, now, seen, orch, agent, calls, created>>

SearchByKeywords ==
    /\ ret = Idle
    /\ \E agent_id \in Agents, keywords \in KeywordChoices, limit \in {1, 10},
          min_importance \in {0, 4000} :
         LET r == search_by_keywords(agent_id, keywords, "any", limit, min_importance)
         IN  /\ CanAccess(r.found)
             /\ working' = r.working
             /\ committed' = r.committed
             /\ ret' = [op |-> "search_by_keywords", raised |-> r.raised,
                        agent_id |-> agent_id, keywords |-> keywords,
                        limit |-> limit, min_importance |-> min_importance,
                        found |-> r.found, searches |-> r.searches]
    /\ UNCHANGED <<cm, messages, memories, now, seen, orch, agent, calls, created>>

RetrieveForMessage ==
    /\ ret = Idle
    /\ \E agent_id \in Agents, message_content \in MessageChoices :
         LET r == retrieve_for_message(agent_id, message_content, 3)
         IN  /\ CanAccess(r.found)
             /\ working' = r.working
             /\ committed' = r.committed
             /\ ret' = [op |-> "retrieve_for_message", raised |-> r.raised,
                        agent_id |-> agent_id, message_content |-> message_content,
                        found |-> r.found, searches |-> r.searches]
    /\ UNCHANGED <<cm, messages, memories, now, seen, orch, agent, calls, created>>

\* MemoryManager.delete_memories; an empty list returns before any statement
DeleteMemories ==
    /\ ret = Idle
    /\ \E agent_id \in Agents, memory_ids \in SUBSET (1..MaxMemories) :
         /\ IF memory_ids = {}
            THEN UNCHANGED <<working, committed>>
            ELSE /\ working' = delete_rows(working, agent_id, memory_ids)
                 /\ committed' = delete_rows(working, agent_id, memory_ids)
         /\ ret' = [op |-> "delete_memories", raised |-> FALSE,
                    agent_id |-> agent_id, memory_ids |-> memory_ids]
    /\ UNCHANGED <<cm, messages, memories, now, seen, orch, agent, calls, created>>

NextStore ==
    \/ StoreMemory
    \/ RetrieveMemories
    \/ SearchByKeywords
    \/ RetrieveForMessage
    \/ DeleteMemories
    \/ Return

SpecStore == InitStore /\ [][NextStore]_vars

(***************************************************************************)
(* Properties of the memory store and the query engine.                    *)
(***************************************************************************)
\* the ids of the rows of a table or of a list of rows
RowIds(rows) == {m.id : m \in rows}
FoundIds(found) == {found[i].id : i \in 1..Len(found)}

\* C13: store_memory is atomic over the row table and the index: a row
\* never becomes committed without its index entry, also not through the
\* commit of a later operation on the connection.
C13_StoreMemoryAtomic ==
    [][\A m \in committed'.memories :
          m.id \notin RowIds(committed.memories)
          => \E e \in committed'.fts : e.rowid = m.id]_vars

\* a call of one of the operations that read memories has returned
Retrieved(r) ==
    r.op \in {"retrieve_memories", "search_by_keywords", "retrieve_for_message"}
    /\ ~r.raised

\* C14: a successful retrieval increases the stored access_count of every
\* memory it returns by exactly 1 and sets its last_accessed, and leaves
\* every other memory as it was.
C14_AccessCountedOnce ==
    [][Retrieved(ret') =>
         /\ RowIds(working'.memories) = RowIds(working.memories)
         /\ \A m \in working.memories :
               IF m.id \in FoundIds(ret'.found)
               THEN [m EXCEPT !.access_count = m.access_count + 1,
                              !.last_accessed = now] \in working'.memories
               ELSE m \in working'.memories
         /\ FoundIds(ret'.found) # {} => committed' = working']_vars

\* C14 witness: a retrieval returned a memory that was stored with access
\* count 0 and left another memory of the store out; the count is now 1.
C14_Witness ==
    /\ Retrieved(ret)
    /\ \E m \in committed.memories :
          /\ m.id \in FoundIds(ret.found)
          /\ m.access_count = 1
          /\ m.last_accessed = now
    /\ \E m \in committed.memories :
          m.id \notin FoundIds(ret.found) /\ m.access_count = 0

\* C15: delete_memories(agent_id, ids) removes the rows and the index
\* entries of the listed ids that belong to agent_id; a memory of another
\* agent keeps its row and its index entry.
C15_DeleteScopedToAgent ==
    [][ret'.op = "delete_memories" =>
         /\ \A m \in working.memories :
               (m.agent_id = ret'.agent_id /\ m.id \in ret'.memory_ids)
               <=> m \notin working'.memories
         /\ \A e \in working.fts :
               (\E m \in working.memories :
                    m.id = e.rowid /\ m.agent_id # ret'.agent_id)
               => e \in working'.fts]_vars

\* the memories of an agent that match any one of the keywords
MatchingAny(db, agent_id, keywords, min_importance) ==
    {m \in db.memories :
        /\ m.agent_id = agent_id
        /\ m.importance_score >= min_importance
        /\ \E e \in db.fts :
              /\ e.rowid = m.id
              /\ \E i \in 1..Len(keywords) : Lower(keywords[i]) \in e.terms}

\* C16: search_by_keywords with two or more keywords returns, up to limit
\* and subject to the filters, the memories of the agent that match any
\* one of the keywords.
C16_KeywordsMatchAny ==
    (ret.op = "search_by_keywords" /\ Len(ret.keywords) >= 2)
    => /\ ~ret.raised
       /\ LET expected == OrderRows(MatchingAny(working, ret.agent_id,
                                                ret.keywords, ret.min_importance))
          IN  [i \in 1..Len(ret.found) |-> ret.found[i].id]
              = [i \in 1..Min(ret.limit, Len(expected)) |-> expected[i].id]

\* C17: retrieve_for_message performs exactly one search per call, with
\* min_importance 0.4: with the raw message when no keyword is extracted,
\* otherwise with the extracted keywords.
C17_OneSearchPerMessage ==
    ret.op = "retrieve_for_message" =>
        LET keywords == extract_keywords(ret.message_content, 5)
        IN  /\ Len(ret.searches) = 1
            /\ ret.searches[1].min_importance = 4000
            /\ ret.searches[1].query =
                  IF keywords = <<>> THEN ret.message_content
                  ELSE Words(JoinOr(keywords))

\* C17 witness: the message "ok??", without a keyword, was searched as it
\* is and nothing was found.
C17_Witness ==
    /\ ret.op = "retrieve_for_message"
    /\ ret.message_content = Words(<<"ok">>)
    /\ ~ret.raised
    /\ ret.found = <<>>
    /\ ret.searches = <<[query |-> Words(<<"ok">>), min_importance |-> 4000]>>
    /\ working.memories # {}

\* C19: a store_memory call with an importance score outside [0.0, 1.0]
\* succeeds and persists the score clamped to [0.0, 1.0].
C19_ScoreClampedNotRejected ==
    (ret.op = "store_memory" /\ ~MemoryValidates(ret.memory.importance_score))
    => /\ ~ret.raised
       /\ \E m \in committed.memories :
             /\ m.id = ret.memory_id
             /\ m.importance_score = Clamp(ret.memory.importance_score, 0, One)

\* the memory m qualifies for the retrieve_memories call that returned: it
\* is of the agent and of the type asked for, at least as important as
\* asked, and its content matches the query
Qualifies(m) ==
    /\ m.agent_id = ret.agent_id
    /\ ret.memory_type # "any" => m.memory_type = ret.memory_type
    /\ m.importance_score >= ret.min_importance
    /\ fts_match(ret.query, Terms(m.content))

\* m comes before o in the order of the result
RanksAbove(m, o) ==
    \/ m.importance_score > o.importance_score
    \/ m.importance_score = o.importance_score /\ m.id > o.id

\* C24: retrieve_memories returns only memories that match the query, are
\* of the agent and of the type asked for and at least min_importance
\* important, ordered by importance then creation time, both descending, at
\* most limit of them, and leaves out no qualifying memory that ranks above
\* a returned one.
C24_RetrieveQualifying ==
    (ret.op = "retrieve_memories" /\ ~ret.raised)
    => /\ Len(ret.found) <= ret.limit
       /\ \A i \in 1..Len(ret.found) :
             /\ \E m \in working.memories : m.id = ret.found[i].id
             /\ Qualifies(ret.found[i])
       /\ \A i, j \in 1..Len(ret.found) :
             i < j => RanksAbove(ret.found[i], ret.found[j])
       /\ \A m \in working.memories :
             (Qualifies(m) /\ m.id \notin FoundIds(ret.found))
             => \A i \in 1..Len(ret.found) : ~RanksAbove(m, ret.found[i])

(***************************************************************************)
(* Sessions: utils/session.py, MemoryManager.create_session/get_session    *)
(* and the sessions table.  A metadata map is a function from its keys to  *)
(* values; a value is modelled by its Python type, its text (repr, or      *)
(* isoformat() for a datetime) and, for a list, the type of its items.     *)
(***************************************************************************)
Value(type, text, items) == [type |-> type, text |-> text, items |-> items]

ValueChoices ==
    {Value("bool", "True", "none"),
     Value("str", "alice", "none"),
     Value("datetime", "2024-01-01T00:00:00", "none"),
     Value("tuple", "(1, 2)", "none"),
     Value("list", "[1, 2]", "int"),
     Value("list", "[datetime.datetime(2024, 1, 1, 0, 0)]", "datetime")}

MetadataKeys == {"user", "when"}

MetadataChoices == UNION {[K -> ValueChoices] : K \in SUBSET MetadataKeys}

SessionIds == {"s1", "s2"}

\* format_session_metadata, per value
format_value(value) ==
    CASE value.type = "datetime" -> Value("str", value.text, "none")
      [] value.type \in {"str", "int", "float", "bool", "NoneType"} -> value
      [] value.type \in {"list", "dict"} -> value
      [] OTHER -> Value("str", value.text, "none")

format_session_metadata(metadata) ==
    [key \in DOMAIN metadata |-> format_value(metadata[key])]

\* json.dumps raises TypeError on a value that is no JSON type, also
\* inside a list
json_serializable(value) ==
    \/ value.type \in {"str", "int", "float", "bool", "NoneType"}
    \/ value.type \in {"list", "dict"} /\ value.items \in {"int", "str"}

\* json.dumps of a value: a JSON string, literal or array
json_dumps_value(value) ==
    CASE value.type = "str" -> [json |-> "string", text |-> value.text, items |-> "none"]
      [] value.type = "bool" ->
            [json |-> "literal",
             text |-> IF value.text = "True" THEN "true" ELSE "false",
             items |-> "none"]
      [] value.type = "list" -> [json |-> "array", text |-> value.text, items |-> value.items]
      [] OTHER -> [json |-> "number", text |-> value.text, items |-> "none"]

json_dumps(metadata) == [key \in DOMAIN metadata |-> json_dumps_value(metadata[key])]

json_loads_value(j) ==
    CASE j.json = "string" -> Value("str", j.text, "none")
      [] j.json = "literal" ->
            Value("bool", IF j.text = "true" THEN "True" ELSE "False", "none")
      [] j.json = "array" -> Value("list", j.text, j.items)
      [] OTHER -> Value("int", j.text, "none")

json_loads(text) == [key \in DOMAIN text |-> json_loads_value(text[key])]

\* get_session that makes up a session for every id
get_session_Fabricated(db, session_id) == [found |-> TRUE, metadata |-> NoItems]

\* SQLiteStorage.get_session on the connection: the metadata of the row,
\* or "none"
get_session(db, session_id) ==
    IF \E row \in db.sessions : row.session_id = session_id
    THEN LET row == CHOOSE r \in db.sessions : r.session_id = session_id
         IN  [found |-> TRUE, metadata |-> json_loads(row.metadata)]
    ELSE [found |-> FALSE]

InitSession == InitScore

\* MemoryManager.create_session with a given id on the connection: format
\* the metadata, serialise it and insert the row; a value json.dumps cannot
\* serialise and an id that exists raise before anything is written.
create_session(db, session_id, metadata, at) ==
    LET formatted == format_session_metadata(metadata)
        row == [session_id |-> session_id, created_at |-> at,
                last_active |-> at, metadata |-> json_dumps(formatted)]
    IN  IF \/ \E key \in DOMAIN formatted : ~json_serializable(formatted[key])
           \/ \E r \in db.sessions : r.session_id = session_id
        THEN [raised |-> TRUE, db |-> db]
        ELSE [raised |-> FALSE, db |-> [db EXCEPT !.sessions = @ \cup {row}]]

CreateSession ==
    /\ ret = Idle
    /\ \E session_id \in SessionIds, metadata \in MetadataChoices :
         LET r == create_session(working, session_id, metadata, now)
         IN  /\ ret' = [op |-> "create_session", raised |-> r.raised,
                        session_id |-> session_id, metadata |-> metadata]
             /\ IF r.raised THEN UNCHANGED <<working, committed>>
                ELSE working' = r.db /\ committed' = r.db
    /\ UNCHANGED <<cm, messages, memories, now, seen, orch, agent, calls, created>>

GetSession ==
    /\ ret = Idle
    /\ \E session_id \in SessionIds :
         ret' = [op |-> "get_session", session_id |-> session_id,
                 session |-> get_session(working, session_id)]
    /\ UNCHANGED <<cm, messages, memories, now, seen, committed, working, orch, agent, calls, created>>

NextSession ==
    \/ CreateSession
    \/ GetSession
    \/ Return

SpecSession == InitSession /\ [][NextSession]_vars

\* C20: after create_session(metadata=m) has accepted m, get_session
\* returns a session whose metadata is identical to m.
C20_MetadataRoundTrip ==
    (ret.op = "create_session" /\ ~ret.raised)
    => /\ get_session(working, ret.session_id).found
       /\ get_session(working, ret.session_id).metadata = ret.metadata

(***************************************************************************)
(* storage/sqlite.py, update_session and delete_session.  update_session   *)
(* is a coroutine that reads the row, merges and writes: it is suspended   *)
(* at the await between the read and the write, where the other callers of *)
(* the connection run.                                                     *)
(***************************************************************************)
\* {**a, **b} with b alone: the stored metadata are dropped
Merge_Overwrite(a, b) == b

\* {**a, **b}
Merge(a, b) ==
    [key \in DOMAIN a \cup DOMAIN b |-> IF key \in DOMAIN b THEN b[key] ELSE a[key]]

\* the metadata arguments of the update_session_metadata calls
UpdateChoices ==
    {"user" :> Value("str", "alice", "none"),
     "when" :> Value("datetime", "2024-01-01T00:00:00", "none"),
     "user" :> Value("str", "bob", "none")}

\* the session the update_session_metadata calls are about
UpdatedSessions == {"s1"}

\* lines 230-241: UPDATE sessions SET last_active = ?, metadata = ?
update_session_row(db, session_id, metadata, at) ==
    [db EXCEPT !.sessions =
        {IF row.session_id = session_id
         THEN [row EXCEPT !.last_active = at, !.metadata = json_dumps(metadata)]
         ELSE row : row \in @}]

\* DELETE FROM sessions with foreign_keys = ON: the rows of the tables that
\* reference the session ON DELETE CASCADE go with it
delete_session_rows(db, session_id) ==
    [db EXCEPT !.sessions = {row \in @ : row.session_id # session_id},
               !.messages = SelectSeq(@, LAMBDA row : row.session_id # session_id),
               !.agent_states = {row \in @ : row.session_id # session_id},
               !.conversation_history =
                   SelectSeq(@, LAMBDA row : row.session_id # session_id)]

\* the row of the session still holds the metadata that the call has read
ReadIsCurrent(call) ==
    get_session(working, call.session_id) = [found |-> TRUE, metadata |-> call.session]

InitUpdate == InitScore

\* MemoryManager.create_session(session_id) without metadata
CreateSessionNoMetadata ==
    /\ ret = Idle
    /\ \E session_id \in SessionIds :
         LET r == create_session(working, session_id, NoItems, now)
         IN  /\ ret' = [op |-> "create_session", raised |-> r.raised,
                        session_id |-> session_id, metadata |-> NoItems]
             /\ IF r.raised THEN UNCHANGED <<working, committed>>
                ELSE working' = r.db /\ committed' = r.db
    /\ UNCHANGED <<cm, messages, memories, now, seen, orch, agent, calls, created>>

\* update_session_metadata up to the await that follows get_session: the
\* metadata are formatted and the row is read; without a row the call raises
UpdateSessionRead ==
    /\ \E caller \in Callers, session_id \in UpdatedSessions, metadata \in UpdateChoices :
         /\ calls[caller] = NotCalling
         /\ LET session == get_session(working, session_id)
                formatted == format_session_metadata(metadata)
            IN  calls' = [calls EXCEPT ![caller] =
                    IF session.found
                    THEN [pc |-> "read", session_id |-> session_id,
                          metadata |-> formatted, session |-> session.metadata]
                    ELSE [pc |-> "done", raised |-> TRUE, session_id |-> session_id,
                          metadata |-> formatted]]
    /\ UNCHANGED <<cm, messages, memories, now, ret, seen, committed, working, orch, agent, created>>

\* the rest of update_session: merge into what was read, UPDATE and commit;
\* `stale` records that the row had changed since the call read it
UpdateSessionWrite ==
    /\ \E caller \in Callers :
         /\ calls[caller].pc = "read"
         /\ LET call == calls[caller]
                updated_metadata == Merge(call.session, call.metadata)
                after == update_session_row(working, call.session_id,
                                            updated_metadata, now)
            IN  IF \E key \in DOMAIN updated_metadata :
                      ~json_serializable(updated_metadata[key])
                THEN /\ calls' = [calls EXCEPT ![caller] =
                                    [pc |-> "done", raised |-> TRUE,
                                     session_id |-> call.session_id,
                                     metadata |-> call.metadata]]
                     /\ UNCHANGED <<working, committed>>
                ELSE /\ calls' = [calls EXCEPT ![caller] =
                                    [pc |-> "done", raised |-> FALSE,
                                     session_id |-> call.session_id,
                                     metadata |-> call.metadata,
                                     stale |-> ~ReadIsCurrent(call)]]
                     /\ working' = after
                     /\ committed' = after
    /\ UNCHANGED <<cm, messages, memories, now, ret, seen, orch, agent, created>>

\* the caller takes the outcome of update_session_metadata
UpdateSessionReturn ==
    /\ \E caller \in Callers :
         /\ calls[caller].pc = "done"
         /\ calls' = [calls EXCEPT ![caller] = NotCalling]
    /\ UNCHANGED <<cm, messages, memories, now, ret, seen, committed, working, orch, agent, created>>

\* MemoryManager.delete_session; `existed` records whether there was a row
DeleteSession ==
    /\ ret = Idle
    /\ \E session_id \in SessionIds :
         /\ working' = delete_session_rows(working, session_id)
         /\ committed' = delete_session_rows(working, session_id)
         /\ ret' = [op |-> "delete_session", session_id |-> session_id,
                    existed |-> get_session(working, session_id).found]
    /\ UNCHANGED <<cm, messages, memories, now, seen, orch, agent, calls, created>>

NextUpdate ==
    \/ CreateSessionNoMetadata
    \/ UpdateSessionRead
    \/ UpdateSessionWrite
    \/ UpdateSessionReturn
    \/ DeleteSession
    \/ Return

SpecUpdate == InitUpdate /\ [][NextUpdate]_vars

\* C22: update_session calls that run one after the other keep each
\* other's keys: a call whose write meets the row as the call has read it
\* stores every key the row held and its own keys, its own value on a
\* shared key.  (That calls which interleave can lose an update is the
\* state C22_LostUpdate.)
C22_SequentialUpdatesKept ==
    [][\A caller \in Callers :
         (/\ calls[caller].pc = "read"
          /\ calls'[caller].pc = "done"
          /\ ~calls'[caller].raised
          /\ ReadIsCurrent(calls[caller]))
         => LET call == calls[caller]
                stored == get_session(working', call.session_id).metadata
            IN  /\ DOMAIN stored = DOMAIN call.session \cup DOMAIN call.metadata
                /\ \A key \in DOMAIN call.metadata : stored[key] = call.metadata[key]
                /\ \A key \in DOMAIN call.session \ DOMAIN call.metadata :
                      stored[key] = call.session[key]]_vars

\* C22 witness: two calls on the same session with different keys have
\* both returned, the second wrote over a row that had changed since it
\* read it, and the row holds the key of the second only.
C22_LostUpdate ==
    /\ calls["c1"].pc = "done" /\ ~calls["c1"].raised
    /\ calls["c2"].pc = "done" /\ ~calls["c2"].raised
    /\ calls["c1"].session_id = calls["c2"].session_id
    /\ DOMAIN calls["c1"].metadata \cap DOMAIN calls["c2"].metadata = {}
    /\ ~calls["c1"].stale
    /\ calls["c2"].stale
    /\ get_session(working, calls["c1"].session_id).found
    /\ DOMAIN get_session(working, calls["c1"].session_id).metadata
          = DOMAIN calls["c2"].metadata

(***************************************************************************)
(* The tables that reference a session: messages, conversation_history and *)
(* agent_states, each with FOREIGN KEY (session_id) REFERENCES sessions ON *)
(* DELETE CASCADE under PRAGMA foreign_keys = ON; the memories table has   *)
(* no such key.                                                            *)
(***************************************************************************)
MaxRows == 2

\* the foreign key: the session of a new row exists
SessionExists(db, session_id) == \E row \in db.sessions : row.session_id = session_id

\* the rows of the three tables that reference sessions
SessionRows(db) ==
    Len(db.messages) + Len(db.conversation_history) + Cardinality(db.agent_states)

StoredMessage(session_id, type, sender, recipient, content) ==
    [session_id |-> session_id, type |-> type, sender |-> sender,
     recipient |-> recipient, content |-> content]

\* the arguments of the store_message calls
StoredMessageChoices ==
    {StoredMessage(session_id, "user", "alice", "echo1", <<"hi">>) :
        session_id \in SessionIds}
    \cup {StoredMessage(session_id, "agent", "echo1", "none", <<"done">>) :
             session_id \in SessionIds}

\* the agent states that are saved: {}, {"n": 1} and {"n": 2}
StateChoices ==
    {NoItems, "n" :> Value("int", "1", "none"), "n" :> Value("int", "2", "none")}

\* SQLiteStorage.store_message, lines 255-272: INSERT INTO messages, commit
insert_message(db, message, at) ==
    [db EXCEPT !.messages = Append(@, [session_id |-> message.session_id,
                                       timestamp |-> at, type |-> message.type,
                                       sender |-> message.sender,
                                       recipient |-> message.recipient,
                                       content |-> message.content])]

\* lines 275-278: UPDATE sessions SET last_active = ?
touch_session(db, session_id, at) ==
    [db EXCEPT !.sessions =
        {IF row.session_id = session_id THEN [row EXCEPT !.last_active = at] ELSE row :
            row \in @}]

\* SQLiteStorage.get_messages(session_id): ORDER BY timestamp ASC, rows of
\* one timestamp in the order of their insertion
get_messages(db, session_id) ==
    SelectSeq(db.messages, LAMBDA row : row.session_id = session_id)

\* SQLiteStorage.store_conversation_entry: INSERT INTO conversation_history
insert_conversation_entry(db, agent_id, session_id, at) ==
    [db EXCEPT !.conversation_history =
        Append(@, [agent_id |-> agent_id, session_id |-> session_id,
                   role |-> "user", content |-> "hello", timestamp |-> at])]

\* SQLiteStorage.get_conversation_history(agent_id, session_id)
get_conversation_history(db, agent_id, session_id) ==
    SelectSeq(db.conversation_history,
              LAMBDA row : row.agent_id = agent_id /\ row.session_id = session_id)

\* SQLiteStorage.save_agent_state: INSERT OR REPLACE INTO agent_states, the
\* row of the primary key (agent_id, session_id) replaced
insert_or_replace_agent_state(db, agent_id, session_id, state_data, at) ==
    [db EXCEPT !.agent_states =
        {row \in @ : ~(row.agent_id = agent_id /\ row.session_id = session_id)}
        \cup {[agent_id |-> agent_id, session_id |-> session_id,
                state_data |-> json_dumps(state_data), updated_at |-> at]}]

\* MemoryManager.load_agent_state: the state_data of the row, or None
load_agent_state(db, agent_id, session_id) ==
    LET rows == {row \in db.agent_states :
                    row.agent_id = agent_id /\ row.session_id = session_id}
    IN  IF rows = {} THEN [found |-> FALSE]
        ELSE [found |-> TRUE,
              state_data |-> json_loads((CHOOSE row \in rows : TRUE).state_data)]

InitDelete == InitScore

\* MemoryManager.store_message; without the session the INSERT raises
\* IntegrityError and nothing is written
StoreMessage ==
    /\ ret = Idle
    /\ SessionRows(working) < MaxRows
    /\ \E message \in StoredMessageChoices :
         IF SessionExists(working, message.session_id)
         THEN LET after == touch_session(insert_message(working, message, now),
                                         message.session_id, now)
              IN  /\ working' = after
                  /\ committed' = after
                  /\ ret' = [op |-> "store_message", raised |-> FALSE,
                             message |-> message]
         ELSE /\ UNCHANGED <<working, committed>>
              /\ ret' = [op |-> "store_message", raised |-> TRUE, message |-> message]
    /\ UNCHANGED <<cm, messages, memories, now, seen, orch, agent, calls, created>>

\* MemoryManager.store_conversation_entry
StoreConversationEntry ==
    /\ ret = Idle
    /\ SessionRows(working) < MaxRows
    /\ \E agent_id \in {"echo1"}, session_id \in SessionIds :
         IF SessionExists(working, session_id)
         THEN LET after == insert_conversation_entry(working, agent_id, session_id, now)
              IN  /\ working' = after
                  /\ committed' = after
                  /\ ret' = [op |-> "store_conversation_entry", raised |-> FALSE,
                             session_id |-> session_id]
         ELSE /\ UNCHANGED <<working, committed>>
              /\ ret' = [op |-> "store_conversation_entry", raised |-> TRUE,
                         session_id |-> session_id]
    /\ UNCHANGED <<cm, messages, memories, now, seen, orch, agent, calls, created>>

\* MemoryManager.save_agent_state
SaveAgentState ==
    /\ ret = Idle
    /\ SessionRows(working) < MaxRows
    /\ \E agent_id \in {"echo1"}, session_id \in SessionIds, state_data \in StateChoices :
         IF SessionExists(working, session_id)
         THEN LET after == insert_or_replace_agent_state(working, agent_id, session_id,
                                                         state_data, now)
              IN  /\ working' = after
                  /\ committed' = after
                  /\ ret' = [op |-> "save_agent_state", raised |-> FALSE,
                             session_id |-> session_id, state_data |-> state_data]
         ELSE /\ UNCHANGED <<working, committed>>
              /\ ret' = [op |-> "save_agent_state", raised |-> TRUE,
                         session_id |-> session_id, state_data |-> state_data]
    /\ UNCHANGED <<cm, messages, memories, now, seen, orch, agent, calls, created>>

NextDelete ==
    \/ CreateSessionNoMetadata
    \/ StoreMessage
    \/ StoreConversationEntry
    \/ SaveAgentState
    \/ StoreMemory
    \/ DeleteSession
    \/ Return

SpecDelete == InitDelete /\ [][NextDelete]_vars

\* the memories of the session that a retrieve_memories call returns
RetrievedOfSession(db, session_id) ==
    {m \in db.memories :
        \E agent_id \in Agents, query \in QueryChoices :
            /\ ~fts_syntax_error(query)
            /\ m.session_id = session_id
            /\ m.id \in FoundIds(storage_retrieve_memories(db, agent_id, query,
                                                           "any", 10, 0))}

\* C23: after delete_session of a session, get_session returns none and no
\* stored message, conversation entry, agent state or memory with that
\* session_id remains in the database or is returned by a retrieval.
C23_DeleteSessionDeletesAll ==
    (ret.op = "delete_session" /\ ret.existed) =>
        \A db \in {working, committed} :
            /\ ~get_session(db, ret.session_id).found
            /\ get_messages(db, ret.session_id) = <<>>
            /\ get_conversation_history(db, "echo1", ret.session_id) = <<>>
            /\ ~load_agent_state(db, "echo1", ret.session_id).found
            /\ \A row \in db.agent_states : row.session_id # ret.session_id
            /\ \A m \in db.memories : m.session_id # ret.session_id
            /\ RetrievedOfSession(db, ret.session_id) = {}

(***************************************************************************)
(* core/orchestrator.py, core/agent.py, core/message.py and                *)
(* agents/echo_agent.py.  A Message is a record; its id is the number of   *)
(* the message the caller constructed, with the kind of the message that   *)
(* an agent derived from it; its content is the sequence of its parts.  A  *)
(* coroutine of the orchestrator runs as one step; the loop of each agent  *)
(* is a task of its own and takes one message from the inbox per step.     *)
(***************************************************************************)
MaxCreated == 1

\* the members of core MessageType, lines 14-19
CoreMessageTypes == {"task", "query", "response", "broadcast", "system", "error"}

\* MessageType.<name> evaluates; without the member it raises AttributeError
HasMember(name) == name \in CoreMessageTypes

\* the members that the dict mem_type_map of _handle_message names
mem_type_map_members == {"task", "response", "broadcast", "error", "status"}

\* the members that the dict mem_to_core_type of restore_session names
mem_to_core_type_members == {"response", "task", "status", "broadcast"}

\* mem_type_map.get(message.type, MemMessageType.AGENT)
mem_type_map(type) ==
    CASE type \in {"task", "response"} -> "agent"
      [] type = "broadcast" -> "broadcast"
      [] type \in {"error", "status"} -> "system"
      [] OTHER -> "agent"

\* mem_to_core_type.get(msg.type, MessageType.RESPONSE)
mem_to_core_type(type) ==
    CASE type = "agent" -> "response"
      [] type = "user" -> "task"
      [] type = "system" -> "status"
      [] type = "broadcast" -> "broadcast"
      [] OTHER -> "response"

CoreMessage(id, type, sender, recipient, content, original_message) ==
    [id |-> id, type |-> type, sender |-> sender, recipient |-> recipient,
     content |-> content, original_message |-> original_message]

\* the id of the n-th message a caller constructs, and of the messages an
\* agent constructs while it processes that message
MessageId(n, kind) == [n |-> n, kind |-> kind]

NoOriginal == MessageId(0, "none")

\* the objects, the connection and the file that a coroutine works on
World(o, a, w, c) == [orch |-> o, agent |-> a, working |-> w, committed |-> c]

\* the agent objects that are registered
Registered(o) == {o.agents[name] : name \in DOMAIN o.agents}

\* Agent.set_memory_manager on each of objects
set_memory_manager(a, objects, session_id) ==
    [object \in DOMAIN a |->
        IF object \in objects
        THEN LET attached == [a[object] EXCEPT !.memory_manager = TRUE,
                                               !.session_id = session_id]
             IN  \* lines 72-75: an LLMAgent with enable_memory_retrieval gets
                 \* its query engine and its retriever
                 IF "memory_retriever" \in DOMAIN attached
                 THEN [attached EXCEPT !.memory_retriever = TRUE]
                 ELSE attached
        ELSE a[object]]

\* Agent.receive_message on each of objects
receive_message(a, objects, message) ==
    [object \in DOMAIN a |->
        IF object \in objects
        THEN [a[object] EXCEPT !.inbox = Append(@, message)]
        ELSE a[object]]

\* lines 186-195: the agents that get the message
Recipients(o, message) ==
    IF message.type = "broadcast" \/ message.recipient = "none"
    THEN {o.agents[name] : name \in DOMAIN o.agents \ {message.sender}}
    ELSE IF message.recipient \in DOMAIN o.agents
         THEN {o.agents[message.recipient]}
         ELSE {}

\* Orchestrator._handle_message: append to the history, persist when a
\* memory manager and a session are attached, deliver.  Building the dict
\* mem_type_map raises AttributeError when MessageType lacks a member it
\* names; store_message raises IntegrityError without the session row.
_handle_message(world, message) ==
    LET appended == [world EXCEPT !.orch.message_history = Append(@, message)]
        stored ==
            touch_session(
                insert_message(appended.working,
                               StoredMessage(world.orch.session_id,
                                             mem_type_map(message.type), message.sender,
                                             message.recipient, message.content),
                               now),
                world.orch.session_id, now)
        persisted == [appended EXCEPT !.working = stored, !.committed = stored]
        delivered(w) ==
            [w EXCEPT !.agent = receive_message(w.agent, Recipients(w.orch, message),
                                                 message)]
    IN  IF world.orch.memory_manager /\ world.orch.session_id # "none"
        THEN IF \E name \in mem_type_map_members : ~HasMember(name)
             THEN [raised |-> TRUE, error |-> "STATUS", world |-> appended]
             ELSE IF ~SessionExists(world.working, world.orch.session_id)
                  THEN [raised |-> TRUE, error |-> "FOREIGN KEY constraint failed",
                        world |-> appended]
                  ELSE [raised |-> FALSE, error |-> "none", world |-> delivered(persisted)]
        ELSE [raised |-> FALSE, error |-> "none", world |-> delivered(appended)]

\* Agent.send_message: through the callback, RuntimeError without one
send_message(world, object, message) ==
    IF world.agent[object].message_callback
    THEN _handle_message(world, message)
    ELSE [raised |-> TRUE, error |-> "no message callback set", world |-> world]

\* EchoAgent.process_message: a RESPONSE to the sender of a QUERY or TASK
process_message(world, object, message) ==
    IF message.type \in {"query", "task"}
    THEN send_message(world, object,
             CoreMessage(MessageId(message.id.n, "response"), "response",
                         world.agent[object].id, message.sender,
                         <<IF message.type = "query" THEN "Echo: "
                           ELSE "Acknowledged task: ">> \o message.content,
                         message.id))
    ELSE [raised |-> FALSE, error |-> "none", world |-> world]

\* One turn of the loop of Agent.start with a message in the inbox, lines
\* 131-143: process it; on an exception send an ERROR message through the
\* callback, and when that raises too the exception ends the task.
loop_turn(world, object) ==
    LET message == Head(world.agent[object].inbox)
        taken == [world EXCEPT !.agent[object].inbox = Tail(@)]
        processed == process_message(taken, object, message)
        error_msg == CoreMessage(MessageId(message.id.n, "error"), "error",
                                 world.agent[object].id, "none",
                                 <<"Error processing message: ", processed.error>>,
                                 NoOriginal)
    IN  IF ~processed.raised THEN [raised |-> FALSE, world |-> processed.world]
        ELSE IF ~processed.world.agent[object].message_callback
             THEN [raised |-> FALSE, world |-> processed.world]
             ELSE LET reported == _handle_message(processed.world, error_msg)
                  IN  [raised |-> reported.raised, world |-> reported.world]

\* the task of the agent's loop is alive
HasTask(object) == \E task \in orch._agent_tasks : task.agent = object /\ ~task.done

\* register_agent without the check of line 32
already_registered_Never(o, agent_id) == FALSE

\* line 32: agent.id in self.agents
already_registered(o, agent_id) == agent_id \in DOMAIN o.agents

InitOrch == InitScore

\* Orchestrator.register_agent
RegisterAgent ==
    /\ ret = Idle
    /\ \E object \in AgentObjects :
         IF already_registered(orch, agent[object].id)
         THEN /\ ret' = [op |-> "register_agent", raised |-> TRUE, object |-> object]
              /\ UNCHANGED <<orch, agent>>
         ELSE /\ ret' = [op |-> "register_agent", raised |-> FALSE, object |-> object]
              /\ orch' = [orch EXCEPT !.agents = (agent[object].id :> object) @@ @]
              /\ agent' =
                   LET called == [agent EXCEPT ![object].message_callback = TRUE]
                   IN  IF orch.memory_manager /\ orch.session_id # "none"
                       THEN set_memory_manager(called, {object}, orch.session_id)
                       ELSE called
    /\ UNCHANGED <<cm, messages, memories, now, seen, committed, working, calls, created>>

\* Orchestrator.attach_memory_manager(memory_manager, session_id), "none"
\* for a call without session_id; returns self.session_id or ""
AttachMemoryManager ==
    /\ ret = Idle
    /\ \E session_id \in SessionIds \cup {"none"} :
         /\ orch' = [orch EXCEPT !.memory_manager = TRUE, !.session_id = session_id]
         /\ agent' = IF session_id # "none"
                     THEN set_memory_manager(agent, Registered(orch), session_id)
                     ELSE agent
         /\ ret' = [op |-> "attach_memory_manager", session_id |-> session_id,
                    value |-> IF session_id # "none" THEN session_id ELSE ""]
    /\ UNCHANGED <<cm, messages, memories, now, seen, committed, working, calls, created>>

\* Orchestrator.start: a task for the loop of each agent that is registered
\* now; Agent.start sets running
Start ==
    /\ ret = Idle
    /\ IF orch.running
       THEN UNCHANGED <<orch, agent>>
       ELSE /\ orch' = [orch EXCEPT !.running = TRUE,
                                    !._agent_tasks = @ \cup
                                        {[agent |-> object, done |-> FALSE] :
                                            object \in Registered(orch)}]
            /\ agent' = [object \in DOMAIN agent |->
                            IF object \in Registered(orch)
                            THEN [agent[object] EXCEPT !.running = TRUE]
                            ELSE agent[object]]
    /\ ret' = [op |-> "start"]
    /\ UNCHANGED <<cm, messages, memories, now, seen, committed, working, calls, created>>

\* Orchestrator.stop: the agents stopped, the tasks cancelled and cleared
Stop ==
    /\ ret = Idle
    /\ IF ~orch.running
       THEN UNCHANGED <<orch, agent>>
       ELSE /\ orch' = [orch EXCEPT !.running = FALSE, !._agent_tasks = {}]
            /\ agent' = [object \in DOMAIN agent |->
                            IF object \in Registered(orch)
                            THEN [agent[object] EXCEPT !.running = FALSE]
                            ELSE agent[object]]
    /\ ret' = [op |-> "stop"]
    /\ UNCHANGED <<cm, messages, memories, now, seen, committed, working, calls, created>>

\* Orchestrator.send_message_to_agent with a new Message from "test"
SendMessageToAgent ==
    /\ ret = Idle
    /\ created < MaxCreated
    /\ \E agent_id \in {"echo1", "echo2"}, type \in {"query", "task", "system"} :
         LET message == CoreMessage(MessageId(created + 1, "sent"), type, "test",
                                    agent_id, <<"ping">>, NoOriginal)
         IN  IF agent_id \in DOMAIN orch.agents
             THEN /\ agent' = receive_message(agent, {orch.agents[agent_id]}, message)
                  /\ ret' = [op |-> "send_message_to_agent", raised |-> FALSE,
                             message |-> message]
             ELSE /\ UNCHANGED agent
                  /\ ret' = [op |-> "send_message_to_agent", raised |-> TRUE,
                             message |-> message]
    /\ created' = created + 1
    /\ UNCHANGED <<cm, messages, memories, now, seen, committed, working, orch, calls>>

\* Agent.send_message with a new Message, called on an agent object: a
\* BROADCAST, or a RESPONSE to the other agent
AgentSendMessage ==
    /\ ret = Idle
    /\ created < MaxCreated
    /\ \E object \in AgentObjects, type \in {"broadcast", "response"} :
         LET message ==
                 CoreMessage(MessageId(created + 1, "sent"), type, agent[object].id,
                             IF type = "broadcast" THEN "none"
                             ELSE IF agent[object].id = "echo1" THEN "echo2" ELSE "echo1",
                             <<"hello">>, NoOriginal)
             r == send_message(World(orch, agent, working, committed), object, message)
         IN  /\ orch' = r.world.orch
             /\ agent' = r.world.agent
             /\ working' = r.world.working
             /\ committed' = r.world.committed
             /\ ret' = [op |-> "send_message", raised |-> r.raised, object |-> object,
                        message |-> message]
    /\ created' = created + 1
    /\ UNCHANGED <<cm, messages, memories, now, seen, calls>>

\* the loop of an agent takes the next message of its inbox
AgentStep ==
    \E object \in AgentObjects :
        /\ HasTask(object)
        /\ agent[object].running
        /\ agent[object].inbox # <<>>
        /\ LET r == loop_turn(World(orch, agent, working, committed), object)
           IN  /\ orch' = IF r.raised
                          THEN [r.world.orch EXCEPT !._agent_tasks =
                                   {IF task.agent = object
                                    THEN [task EXCEPT !.done = TRUE] ELSE task :
                                       task \in @}]
                          ELSE r.world.orch
               /\ agent' = r.world.agent
               /\ working' = r.world.working
               /\ committed' = r.world.committed
        /\ UNCHANGED <<cm, messages, memories, now, ret, seen, calls, created>>

NextOrch ==
    \/ CreateSessionNoMetadata
    \/ RegisterAgent
    \/ AttachMemoryManager
    \/ Start
    \/ Stop
    \/ SendMessageToAgent
    \/ AgentSendMessage
    \/ AgentStep
    \/ Return

SpecOrch == InitOrch /\ [][NextOrch]_vars

\* The orchestrator without memory manager, as in test_basic.py.  The loop
\* of an agent is a task of the event loop: it runs whenever it can.
NextEcho ==
    \/ RegisterAgent
    \/ Start
    \/ Stop
    \/ SendMessageToAgent
    \/ AgentStep
    \/ Return

SpecEcho == InitOrch /\ [][NextEcho]_vars /\ WF_vars(AgentStep)

\* C30: registering an agent whose id is already registered raises and
\* changes nothing: the agents map still maps the id to the first agent
\* and the rejected agent gets no message callback.
C30_DuplicateRegistrationRejected ==
    [][(/\ ret = Idle
        /\ ret'.op = "register_agent"
        /\ agent[ret'.object].id \in DOMAIN orch.agents)
       => /\ ret'.raised
          /\ orch' = orch
          /\ agent' = agent
          /\ working' = working
          /\ committed' = committed]_vars

\* C30 witness: e1 is registered as echo1 and the registration of the
\* second agent of that name was rejected.
C30_Witness ==
    /\ ret.op = "register_agent"
    /\ ret.raised
    /\ ret.object = "e1b"
    /\ "echo1" \in DOMAIN orch.agents
    /\ orch.agents["echo1"] = "e1"
    /\ ~agent["e1b"].message_callback

\* C29: attach_memory_manager without session_id creates a new session
\* and returns its id, so that the messages handled afterwards are
\* persisted: the value returned is the id of a session of the database
\* and the session of the orchestrator.
C29_AttachCreatesSession ==
    (ret.op = "attach_memory_manager" /\ ret.session_id = "none")
    => /\ ret.value # ""
       /\ SessionExists(working, ret.value)
       /\ orch.session_id = ret.value

\* the rows of the messages table that hold the message
StoredRows(db, session_id, message) ==
    {i \in 1..Len(db.messages) :
        /\ db.messages[i].session_id = session_id
        /\ db.messages[i].sender = message.sender
        /\ db.messages[i].recipient = message.recipient
        /\ db.messages[i].content = message.content}

\* the message is in the inbox of the agent object
InInbox(a, object, message) ==
    \E i \in 1..Len(a[object].inbox) : a[object].inbox[i] = message

\* C26: with a memory manager and a session attached, every message an
\* agent sends through the orchestrator is appended to message_history,
\* persisted exactly once with store_message and delivered to its
\* recipient, or to every other registered agent when it is a broadcast or
\* has no recipient.
C26_SentMessagePersistedDelivered ==
    [][(/\ orch.memory_manager
        /\ orch.session_id # "none"
        /\ SessionExists(working, orch.session_id)
        /\ Len(orch'.message_history) > Len(orch.message_history))
       => \A i \in (Len(orch.message_history) + 1)..Len(orch'.message_history) :
             LET message == orch'.message_history[i]
             IN  /\ Cardinality(StoredRows(working', orch.session_id, message))
                      = Cardinality(StoredRows(working, orch.session_id, message)) + 1
                 /\ \A object \in Recipients(orch, message) :
                       InInbox(agent', object, message)]_vars

\* the n-th message is a QUERY or TASK in the inbox of the registered agent
DeliveredTo(n, agent_id) ==
    /\ agent_id \in DOMAIN orch.agents
    /\ \E i \in 1..Len(agent[orch.agents[agent_id]].inbox) :
          LET message == agent[orch.agents[agent_id]].inbox[i]
          IN  message.id = MessageId(n, "sent") /\ message.type \in {"query", "task"}

\* the RESPONSE messages of the history that answer the n-th message, from
\* the agent to the sender of the message
ResponsesTo(n, agent_id) ==
    {i \in 1..Len(orch.message_history) :
        LET message == orch.message_history[i]
        IN  /\ message.type = "response"
            /\ message.original_message = MessageId(n, "sent")
            /\ message.sender = agent_id
            /\ message.recipient = "test"}

\* C25: every QUERY or TASK delivered to a registered EchoAgent of a
\* started orchestrator eventually leads to exactly one RESPONSE from that
\* agent to the sender in message_history, unless the orchestrator is
\* stopped first.
C25_EveryRequestAnswered ==
    \A n \in 1..MaxCreated : \A agent_id \in {"echo1", "echo2"} :
        [](orch.running /\ DeliveredTo(n, agent_id)
           => <>(~orch.running \/ Cardinality(ResponsesTo(n, agent_id)) = 1))

(***************************************************************************)
(* Orchestrator.restore_session and the state of the agents.               *)
(***************************************************************************)
\* Agent.restore_state: the saved state replaces the state of the agent if
\* there is one and it is not empty (if state_data:)
restore_state(a, object, db) ==
    IF a[object].memory_manager /\ a[object].session_id # "none"
    THEN LET loaded == load_agent_state(db, a[object].id, a[object].session_id)
         IN  IF loaded.found /\ loaded.state_data # NoItems
             THEN [a EXCEPT ![object]._state = loaded.state_data]
             ELSE a
    ELSE a

\* lines 114-123: a Message for each stored message
RestoredHistory(stored_messages) ==
    [i \in 1..Len(stored_messages) |->
        CoreMessage(MessageId(i, "restored"), mem_to_core_type(stored_messages[i].type),
                    stored_messages[i].sender, stored_messages[i].recipient,
                    stored_messages[i].content, NoOriginal)]

\* lines 126-128: set_memory_manager and restore_state on each agent
RECURSIVE RestoredAgents(_, _, _, _)
RestoredAgents(a, objects, session_id, db) ==
    IF objects = {} THEN a
    ELSE LET object == CHOOSE x \in objects : TRUE
         IN  RestoredAgents(restore_state(set_memory_manager(a, {object}, session_id),
                                          object, db),
                            objects \ {object}, session_id, db)

InitRestore == InitScore

\* Orchestrator.restore_session: RuntimeError without memory manager,
\* ValueError without the session; then session_id is set, and building
\* the dict mem_to_core_type raises AttributeError when MessageType lacks
\* a member it names.
RestoreSession ==
    /\ ret = Idle
    /\ \E session_id \in SessionIds :
         LET outcome(raised, error) ==
                 [op |-> "restore_session", raised |-> raised, error |-> error,
                  session_id |-> session_id, attached |-> orch.memory_manager,
                  existed |-> get_session(working, session_id).found]
         IN  IF ~orch.memory_manager
             THEN /\ ret' = outcome(TRUE, "RuntimeError")
                  /\ UNCHANGED <<orch, agent>>
             ELSE IF ~get_session(working, session_id).found
                  THEN /\ ret' = outcome(TRUE, "ValueError")
                       /\ UNCHANGED <<orch, agent>>
                  ELSE IF \E name \in mem_to_core_type_members : ~HasMember(name)
                       THEN /\ ret' = outcome(TRUE, "AttributeError")
                            /\ orch' = [orch EXCEPT !.session_id = session_id]
                            /\ UNCHANGED agent
                       ELSE /\ ret' = outcome(FALSE, "none")
                            /\ orch' = [orch EXCEPT
                                          !.session_id = session_id,
                                          !.message_history =
                                              RestoredHistory(get_messages(working,
                                                                           session_id))]
                            /\ agent' = RestoredAgents(agent, Registered(orch),
                                                       session_id, working)
    /\ UNCHANGED <<cm, messages, memories, now, seen, committed, working, calls, created>>

\* restore_session after messages and agent states were stored
NextRestore ==
    \/ CreateSessionNoMetadata
    \/ StoreMessage
    \/ SaveAgentState
    \/ RegisterAgent
    \/ AttachMemoryManager
    \/ RestoreSession
    \/ Return

SpecRestore == InitRestore /\ [][NextRestore]_vars

\* the operations that take the id of a session, on sessions that are
\* created and deleted
NextLookup ==
    \/ CreateSessionNoMetadata
    \/ DeleteSession
    \/ GetSession
    \/ UpdateSessionRead
    \/ UpdateSessionWrite
    \/ UpdateSessionReturn
    \/ AttachMemoryManager
    \/ RestoreSession
    \/ Return

SpecLookup == InitRestore /\ [][NextLookup]_vars

\* the agent changes its state: agent.state[...] = ...
SetState ==
    /\ ret = Idle
    /\ \E object \in AgentObjects, state \in StateChoices :
         /\ agent[object]._state # state
         /\ agent' = [agent EXCEPT ![object]._state = state]
    /\ UNCHANGED <<cm, messages, memories, now, ret, seen, committed, working, orch, calls, created>>

\* Agent.save_state: nothing without memory manager or session; without
\* the session row the INSERT raises IntegrityError
SaveState ==
    /\ ret = Idle
    /\ SessionRows(working) < MaxRows
    /\ \E object \in AgentObjects :
         LET outcome(saved, raised) ==
                 [op |-> "save_state", object |-> object, saved |-> saved,
                  raised |-> raised, state_data |-> agent[object]._state]
             after == insert_or_replace_agent_state(working, agent[object].id,
                                                    agent[object].session_id,
                                                    agent[object]._state, now)
         IN  IF agent[object].memory_manager /\ agent[object].session_id # "none"
             THEN IF SessionExists(working, agent[object].session_id)
                  THEN /\ working' = after
                       /\ committed' = after
                       /\ ret' = outcome(TRUE, FALSE)
                  ELSE /\ UNCHANGED <<working, committed>>
                       /\ ret' = outcome(FALSE, TRUE)
             ELSE /\ UNCHANGED <<working, committed>>
                  /\ ret' = outcome(FALSE, FALSE)
    /\ UNCHANGED <<cm, messages, memories, now, seen, orch, agent, calls, created>>

\* Agent.restore_state; `loaded` is what load_agent_state returned
RestoreState ==
    /\ ret = Idle
    /\ \E object \in AgentObjects :
         /\ agent' = restore_state(agent, object, working)
         /\ ret' = [op |-> "restore_state", object |-> object,
                    loaded |-> IF /\ agent[object].memory_manager
                                  /\ agent[object].session_id # "none"
                               THEN load_agent_state(working, agent[object].id,
                                                     agent[object].session_id)
                               ELSE [found |-> FALSE]]
    /\ UNCHANGED <<cm, messages, memories, now, seen, committed, working, orch, calls, created>>

NextState ==
    \/ CreateSessionNoMetadata
    \/ RegisterAgent
    \/ AttachMemoryManager
    \/ SetState
    \/ SaveState
    \/ RestoreState
    \/ Return

SpecState == InitRestore /\ [][NextState]_vars

\* the ids of the sessions of the database
StoredSessionIds(db) == {row.session_id : row \in db.sessions}

\* C21: the id of a session that does not exist (never created, or
\* deleted) is never made into a session: get_session returns none,
\* update_session_metadata and restore_session raise, none of them adds a
\* session row, and the failed restore_session leaves the session_id and
\* the message_history of the orchestrator as they were.
C21_UnknownSessionNotFabricated ==
    [][/\ (/\ ret = Idle
           /\ ret'.op = "get_session"
           /\ ~SessionExists(working, ret'.session_id))
          => ~ret'.session.found
       /\ \A caller \in Callers :
             (/\ calls[caller] = NotCalling
              /\ calls'[caller] # NotCalling
              /\ ~SessionExists(working, calls'[caller].session_id))
             => calls'[caller].pc = "done" /\ calls'[caller].raised
       /\ (/\ ret = Idle
           /\ ret'.op = "restore_session"
           /\ ~SessionExists(working, ret'.session_id))
          => /\ ret'.raised
             /\ orch'.session_id = orch.session_id
             /\ orch'.message_history = orch.message_history
       /\ ret'.op # "create_session"
          => /\ StoredSessionIds(working') \subseteq StoredSessionIds(working)
             /\ StoredSessionIds(committed') \subseteq StoredSessionIds(committed)]_vars

\* C21 witness: with the orchestrator attached to the session s2,
\* update_session_metadata and restore_session have both raised on the id
\* s1, which has no session.
C21_Witness ==
    /\ ret.op = "restore_session"
    /\ ret.raised
    /\ ret.error = "ValueError"
    /\ ret.session_id = "s1"
    /\ orch.session_id = "s2"
    /\ StoredSessionIds(working) = {"s2"}
    /\ calls["c1"].pc = "done"
    /\ calls["c1"].raised
    /\ calls["c1"].session_id = "s1"

\* C27: restore_session of a session that exists completes without error:
\* message_history becomes one Message per stored message of the session,
\* in the order of their timestamps with sender, recipient and content,
\* and the state of each registered agent becomes the state saved last for
\* the agent and the session.
C27_RestoreExistingSession ==
    (ret.op = "restore_session" /\ ret.attached /\ ret.existed)
    => /\ ~ret.raised
       /\ LET stored == get_messages(working, ret.session_id)
              history == orch.message_history
          IN  /\ Len(history) = Len(stored)
              /\ \A i \in 1..Len(stored) :
                    /\ history[i].sender = stored[i].sender
                    /\ history[i].recipient = stored[i].recipient
                    /\ history[i].content = stored[i].content
       /\ \A object \in Registered(orch) :
             load_agent_state(working, agent[object].id, ret.session_id).found
             => agent[object]._state
                  = load_agent_state(working, agent[object].id, ret.session_id).state_data

\* C28: the state of an agent round-trips: after save_state with the
\* state S, load_agent_state returns S for the agent and the session, and
\* restore_state makes the state of the agent the state saved last,
\* whatever the state was changed to in between, also for the empty S.
C28_StateRoundTrip ==
    /\ []((ret.op = "save_state" /\ ret.saved)
          => load_agent_state(working, agent[ret.object].id,
                              agent[ret.object].session_id)
               = [found |-> TRUE, state_data |-> ret.state_data])
    /\ [][(ret = Idle /\ ret'.op = "restore_state" /\ ret'.loaded.found)
          => agent'[ret'.object]._state = ret'.loaded.state_data]_vars

(***************************************************************************)
(* storage/sqlite.py: the access counter and the ids of the memories table *)
(* under store_memory, retrieve_memories, update_memory_access and         *)
(* delete_memories.                                                        *)
(***************************************************************************)
InitAccess == InitScore

\* SQLiteStorage.update_memory_access(memory_id): one UPDATE ... WHERE id = ?
\* and a commit; an id without a row changes no row
UpdateMemoryAccess ==
    /\ ret = Idle
    /\ \E memory_id \in 1..MaxMemories :
         /\ \A m \in working.memories : m.id = memory_id => m.access_count < MaxAccess
         /\ working' = update_memory_access(working, {memory_id}, now)
         /\ committed' = update_memory_access(working, {memory_id}, now)
         /\ ret' = [op |-> "update_memory_access", raised |-> FALSE,
                    memory_id |-> memory_id]
    /\ UNCHANGED <<cm, messages, memories, now, seen, orch, agent, calls, created>>

NextAccess ==
    \/ StoreMemory
    \/ RetrieveMemories
    \/ UpdateMemoryAccess
    \/ DeleteMemories
    \/ Return

SpecAccess == InitAccess /\ [][NextAccess]_vars

\* C31: the access_count of a memory id never decreases while the memory
\* exists, and store_memory never gives a new memory an id that an earlier
\* memory had: every id in the table was issued by the sequence, and a new
\* row gets an id above every id issued before.
C31_AccessCountMonotoneIdsFresh ==
    /\ [](\A m \in working.memories : m.id <= working.seq)
    /\ [][(\A m \in working.memories : \A n \in working'.memories :
               n.id = m.id => n.access_count >= m.access_count)
           /\ (\A r \in working'.memories :
                  r.id \notin RowIds(working.memories) => r.id > working.seq)]_vars

\* memory 1 was deleted, and a later store_memory got the id 2
C31_Witness ==
    /\ ret # Idle
    /\ ret.op = "store_memory"
    /\ ~ret.raised
    /\ ret.memory_id = 2
    /\ RowIds(working.memories) = {2}
    /\ working.seq = 2

(***************************************************************************)
(* The selection of _prune_messages against a single sort with a prefix    *)
(* search.                                                                 *)
(***************************************************************************)
\* the unprotected indices sorted once by score (stable), every score taken
\* at the clock reading c
SortedUnprotected(c) ==
    LET n == Len(messages)
        unprotected == FilterIdx(n, 1, (1..n) \ ProtectedSet)
        scored == [k \in 1..Len(unprotected) |->
                    LET msg == messages[unprotected[k]]
                    IN  <<unprotected[k],
                          calculate_importance_score(
                              Get(msg, "content", EmptyText),
                              Get(msg, "role", "assistant"),
                              Get(msg, "timestamp", c),
                              c,
                              Get(msg, "has_replies", FALSE))>>]
    IN  SortByScoreDesc(scored)

\* the protected messages with the first k of the sorted unprotected ones
WithPrefix(c, k) ==
    ProtectedSet \cup {SortedUnprotected(c)[j][1] : j \in 1..k}

\* the longest prefix whose selection fits the effective budget, the empty
\* prefix when none fits
PrefixSelection(c) ==
    LET fitting == {k \in 0..Len(SortedUnprotected(c)) :
                      estimate_tokens_for_messages(Restrict(WithPrefix(c, k)))
                        <= cm.effective_max_tokens}
    IN  IF fitting = {} THEN ProtectedSet
        ELSE WithPrefix(c, CHOOSE k \in fitting : \A j \in fitting : j <= k)

\* C32: the messages that _prune_messages retains are those of the single
\* sort with the longest fitting prefix, for one of the clock readings the
\* call may have taken.
C32_ScanEqualsPrefixSearch ==
    (Returned /\ estimate_tokens_for_messages(messages) > cm.effective_max_tokens)
    => \E c \in 0..MaxClock : RetainedSet = PrefixSelection(c)

\* Whatever the scores are, no keep_count gives a selection that fits,
\* neither of the scan of the code (down to min_keep) nor of a scan down to
\* the number of protected messages: a selection for keep_count holds the
\* protected messages and unprotected ones up to keep_count messages in all.
NoCandidateFits ==
    LET n == Len(messages)
        selections(keep_count) ==
            {K \in SUBSET (1..n) :
                /\ ProtectedSet \subseteq K
                /\ Cardinality(K) = Max(keep_count, Cardinality(ProtectedSet))}
    IN  /\ estimate_tokens_for_messages(messages) > cm.effective_max_tokens
        /\ \A keep_count \in Min(min_keep(cm, messages), Cardinality(ProtectedSet))..n :
              \A K \in selections(keep_count) :
                 estimate_tokens_for_messages(Restrict(K)) > cm.effective_max_tokens

\* C33: when no candidate keep_count fits, prepare_context returns exactly
\* the protected messages, in their order, and pruned_count is the number
\* of unprotected messages.
C33_NothingFitsDropsUnprotected ==
    (Returned /\ memories = <<>> /\ NoCandidateFits)
    => /\ ret.messages = Restrict(ProtectedSet)
       /\ ret.pruned_count = Len(messages) - Cardinality(ProtectedSet)

(***************************************************************************)
(* query.py: QueryEngine.search_recent over the memories of two sessions.  *)
(***************************************************************************)
\* QueryEngine.search_recent, lines 119-130: one search with
\* min_importance=0.3; session_id is not passed on and the result is
\* returned as found
search_recent(agent_id, query, session_id, limit) ==
    search(agent_id, query, "any", limit, 3000)

\* the arguments of the store_memory calls of two sessions
SessionStoreChoices ==
    {MemoryArgs(agent_id, session_id, "episodic", <<"error", "in", "parser">>, score) :
        agent_id \in Agents, session_id \in SessionIds, score \in {2000, 5000}}

InitRecent == InitScore

\* MemoryManager.store_memory for a memory of one of the sessions
StoreSessionMemory ==
    /\ ret = Idle
    /\ working.seq < MaxMemories
    /\ \E memory \in SessionStoreChoices, index_raises \in BOOLEAN :
         LET row == InsertMemoryRow(working, memory)
             indexed == InsertIndexEntry(row, row.seq, memory)
         IN  IF ~MemoryValidates(memory.importance_score)
             THEN /\ ret' = [op |-> "store_memory", raised |-> TRUE,
                             stage |-> "validation", memory |-> memory]
                  /\ UNCHANGED <<working, committed>>
             ELSE IF index_raises
             THEN /\ working' = row
                  /\ UNCHANGED committed
                  /\ ret' = [op |-> "store_memory", raised |-> TRUE,
                             stage |-> "index", memory |-> memory]
             ELSE /\ working' = indexed
                  /\ committed' = indexed
                  /\ ret' = [op |-> "store_memory", raised |-> FALSE,
                             stage |-> "done", memory |-> memory,
                             memory_id |-> row.seq]
    /\ UNCHANGED <<cm, messages, memories, now, seen, orch, agent, calls, created>>

SearchRecent ==
    /\ ret = Idle
    /\ \E agent_id \in Agents, query \in MessageChoices, session_id \in SessionIds,
          limit \in {1, 5} :
         LET r == search_recent(agent_id, query, session_id, limit)
         IN  /\ CanAccess(r.found)
             /\ working' = r.working
             /\ committed' = r.committed
             /\ ret' = [op |-> "search_recent", raised |-> r.raised,
                        agent_id |-> agent_id, query |-> query,
                        session_id |-> session_id, limit |-> limit,
                        found |-> r.found]
    /\ UNCHANGED <<cm, messages, memories, now, seen, orch, agent, calls, created>>

NextRecent ==
    \/ StoreSessionMemory
    \/ SearchRecent
    \/ DeleteMemories
    \/ Return

SpecRecent == InitRecent /\ [][NextRecent]_vars

\* C34: search_recent returns only memories stored under the session_id
\* it was called with.
C34_SearchRecentSessionScoped ==
    (ret.op = "search_recent" /\ ~ret.raised)
    => \A i \in 1..Len(ret.found) : ret.found[i].session_id = ret.session_id

(***************************************************************************)
(* storage/sqlite.py: get_messages with limit, offset and sender.  A limit *)
(* is <<>> for None and <<n>> for the number n; sender "none" is None.     *)
(***************************************************************************)
NoLimit == <<>>

\* SQLiteStorage.get_messages, lines 291-303: the rows of the session (and
\* of the sender) in timestamp order; LIMIT ? OFFSET ? is part of the query
\* only when limit is not None
get_messages_page(db, session_id, limit, offset, sender) ==
    LET rows == SelectSeq(db.messages,
                          LAMBDA row : /\ row.session_id = session_id
                                       /\ (sender # "none" => row.sender = sender))
    IN  IF limit = NoLimit THEN rows
        ELSE SubSeq(rows, offset + 1, Min(offset + limit[1], Len(rows)))

InitMessages == InitScore

\* MemoryManager.get_messages
GetMessages ==
    /\ ret = Idle
    /\ \E session_id \in SessionIds, limit \in {NoLimit, <<0>>, <<1>>, <<2>>},
          offset \in 0..MaxRows, sender \in {"none", "alice"} :
         ret' = [op |-> "get_messages", session_id |-> session_id, limit |-> limit,
                 offset |-> offset, sender |-> sender,
                 found |-> get_messages_page(working, session_id, limit, offset, sender)]
    /\ UNCHANGED <<cm, messages, memories, now, seen, committed, working, orch, agent,
                   calls, created>>

NextMessages ==
    \/ CreateSessionNoMetadata
    \/ StoreMessage
    \/ GetMessages
    \/ Return

SpecMessages == InitMessages /\ [][NextMessages]_vars

\* the messages of the session after the first offset ones, at most limit
\* of them when there is a limit
PageOf(rows, limit, offset) ==
    LET last == IF limit = NoLimit THEN Len(rows) ELSE Min(offset + limit[1], Len(rows))
    IN  SubSeq(rows, offset + 1, last)

\* C35: get_messages(session_id, limit, offset) skips the first offset
\* messages of the session in timestamp order and returns the following
\* ones, all of them when limit is None and at most limit otherwise.
C35_OffsetHonoured ==
    (ret.op = "get_messages" /\ ret.sender = "none")
    => ret.found = PageOf(get_messages(working, ret.session_id), ret.limit, ret.offset)

\* C37: an exception raised while an agent processes a message never ends
\* the loop of the agent: as long as the agent is running, the task that
\* Orchestrator.start created for Agent.start has not ended.
C37_ExceptionNeverEndsLoop ==
    \A task \in orch._agent_tasks : agent[task.agent].running => ~task.done

(***************************************************************************)
(* core/llm_agent.py.  The content of a message that an LLMAgent handles   *)
(* is a text with its words (as the retriever reads them) and its length   *)
(* (as the token estimate reads it).                                       *)
(***************************************************************************)
LLMObjects == {"alice", "bob"}

\* len(s) of the names and of the MessageType values
NameLen(name) ==
    CASE name \in {"alice", "error", "query"} -> 5
      [] name \in {"user", "task", "stub"} -> 4
      [] name = "bob" -> 3
      [] name = "system" -> 6
      [] name = "response" -> 8
      [] name = "broadcast" -> 9

\* a string of words separated by single spaces
RECURSIVE JoinedLen(_)
JoinedLen(ws) ==
    IF ws = <<>> THEN 0
    ELSE WordLen(Lower(Head(ws))) + (IF Len(ws) > 1 THEN 1 ELSE 0) + JoinedLen(Tail(ws))

Str(ws) == [words |-> ws, empty |-> ws = <<>>, len |-> JoinedLen(ws)]

\* the keywords of importance.py that occur in the lowercased words
KeywordsIn(ws) == {Lower(ws[i]) : i \in 1..Len(ws)} \cap high_importance_keywords

\* str(e) of the exceptions that reach an except clause: its words and its
\* length.  The report of pydantic's ValidationError has several lines, none
\* of them with a keyword of importance.py.
ExceptionText(error, id) ==
    CASE error = "provider down" -> Str(<<"provider", "down">>)
      [] error = "no message callback set" ->
            [words |-> <<"Agent", id, "has", "no", "message", "callback", "set">>,
             empty |-> FALSE, len |-> 6 + NameLen(id) + 28]
      [] error = "STATUS" ->
            [words |-> <<"STATUS">>, empty |-> FALSE, len |-> 6]
      [] error = "FOREIGN KEY constraint failed" ->
            [words |-> <<"FOREIGN", "KEY", "constraint", "failed">>, empty |-> FALSE,
             len |-> 29]
      [] error = "validation error" ->
            [words |-> <<"validation", "error", "for", "ContextWindow">>,
             empty |-> FALSE, len |-> 200]

\* metadata of a Message: its keys and the length of str(metadata)
NoMetadata == [keys |-> {}, len |-> 0, signals |-> {}]
\* {"model": response.model, "usage": None, "in_reply_to": message.id}, the
\* id an isoformat timestamp of 26 characters
ResponseMetadata(model) ==
    [keys |-> {"model", "usage", "in_reply_to"}, len |-> 73 + NameLen(model),
     signals |-> {}]
\* {"error": str(e)}
ErrorMetadata(e) ==
    [keys |-> {"error"}, len |-> 13 + e.len, signals |-> {"error"} \cup KeywordsIn(e.words)]

\* Message(..., metadata=metadata)
WithMetadata(message, metadata) == message @@ [metadata |-> metadata]

\* message.metadata, {} by default
MetadataOf(message) ==
    IF "metadata" \in DOMAIN message THEN message.metadata ELSE NoMetadata

LLMMessage(role, content) == [role |-> role, content |-> content]

\* LLMAgent._format_message_for_llm:
\* "Message from {sender} ({type}): {content}", and "\nMetadata: {metadata}"
\* when the metadata is not empty
_format_message_for_llm(message) ==
    LET metadata == MetadataOf(message)
        head == Text(13 + NameLen(message.sender) + 2 + NameLen(message.type) + 3
                        + message.content.len,
                     KeywordsIn(<<message.sender, message.type>>)
                        \cup KeywordsIn(message.content.words))
    IN  LLMMessage("user",
            IF metadata.keys # {}
            THEN Text(head.len + 11 + metadata.len, head.signals \cup metadata.signals)
            ELSE head)

\* LLMAgent.__init__ on Agent.__init__: the context manager of line 36 and
\* the system prompt of lines 39-42 (a length, 0 for none).  llm_provider is
\* "ok" for a provider that answers and "fails" for one that raises.
NewLLMAgent(object, system_prompt, max_context_tokens, llm_provider) ==
    [id |-> object, inbox |-> <<>>, running |-> FALSE,
     message_callback |-> FALSE, _state |-> NoItems,
     memory_manager |-> FALSE, session_id |-> "none",
     llm_provider |-> llm_provider,
     conversation_history |->
        IF system_prompt > 0 THEN <<LLMMessage("system", Text(system_prompt, {}))>>
        ELSE <<>>,
     context_manager |-> ContextManager(max_context_tokens, DefaultBufferTokens,
                                        DefaultKeepRecent, TRUE),
     memory_retriever |-> FALSE]

IsLLMAgent(a) == "llm_provider" \in DOMAIN a

\* MemoryManager.store_conversation_entry with role and content
store_conversation_entry(db, agent_id, session_id, role, content, at) ==
    [db EXCEPT !.conversation_history =
        Append(@, [agent_id |-> agent_id, session_id |-> session_id,
                   role |-> role, content |-> content, timestamp |-> at])]

\* lines 91-94: [{"role": msg.role, "content": msg.content} for msg in ...]
messages_dict(history) ==
    [i \in 1..Len(history) |-> Message(history[i].role, history[i].content)]

\* lines 99-105: {"role": "system", "content": f"[Memory] {mem.content}"}
memories_dict(retrieved_memories) ==
    [i \in 1..Len(retrieved_memories) |->
        Message("system",
                Text(MemoryPrefixedLen + JoinedLen(retrieved_memories[i].content),
                     KeywordsIn(retrieved_memories[i].content)))]

\* lines 115-118 and 127-130: LLMMessage(role=msg["role"], content=msg["content"])
to_llm_messages(dicts) ==
    [i \in 1..Len(dicts) |-> LLMMessage(dicts[i].role, dicts[i].content)]

\* line 126: sum(1 for msg in messages_to_send if msg.role == "system")
system_count(history) == Cardinality({i \in 1..Len(history) : history[i].role = "system"})

\* the element of a singleton set: {F(v) : v \in {e}} applies F to the value of e
Once(S) == CHOOSE x \in S : TRUE

\* lines 145-146: the assistant message goes to the end of the history
history_after_response_OfSent(history, messages_to_send, assistant_message) ==
    Append(messages_to_send, assistant_message)

history_after_response(history, messages_to_send, assistant_message) ==
    Append(history, assistant_message)

\* prepare_context with its argument lists rebound to its results
arguments_after_InPlace(dicts, mems, context_window) ==
    IF context_window.raised THEN [messages |-> dicts, memories |-> mems]
    ELSE [messages |-> context_window.messages,
          memories |-> context_window.retrieved_memories]

\* The lists that prepare_context got, after the call.  Line 70 copies the
\* messages; the pruning (_prune_messages, lines 158-161 and 185-188) and
\* the insertion of lines 91-95 build new lists, and _format_memories
\* appends to lists of its own (lines 229-230): no statement writes to an
\* argument.
arguments_after(dicts, mems, context_window) ==
    [messages |-> dicts, memories |-> mems]

\* lines 86-135: the list for the provider.  prepare_context is lines 69-79
\* (PruneIfNeeded) followed by lines 81-105 (BuildWindow).
messages_to_send(context_manager, history, retrieved_memories, clk) ==
    LET unprepared == [messages |-> <<>>, memories |-> <<>>]
        prepare_context(dicts, mems, context_window) ==
            LET called == [prepare_context |-> TRUE,
                           arguments |-> [messages |-> dicts, memories |-> mems],
                           arguments_after |->
                               arguments_after(dicts, mems, context_window)]
            IN  IF context_window.raised
                THEN called @@ [raised |-> TRUE, messages |-> <<>>, pruned_count |-> 0]
                ELSE called @@
                     [raised |-> FALSE,
                      messages |-> to_llm_messages(context_window.messages),
                      pruned_count |-> context_window.pruned_count]
        prepare(dicts, mems) ==
            IF should_prune(context_manager, dicts)
            THEN Once({prepare_context(dicts, mems, context_window) :
                       context_window \in
                           {BuildWindow(context_manager, pruning, mems) :
                               pruning \in {PruneIfNeeded(context_manager, dicts, clk)}}})
            ELSE [prepare_context |-> FALSE, arguments |-> unprepared,
                  arguments_after |-> unprepared, raised |-> FALSE,
                  messages |-> IF mems # <<>>
                               THEN InsertAt(history, system_count(history),
                                             to_llm_messages(mems))
                               ELSE history,
                  pruned_count |-> 0]
    IN  Once({prepare(dicts, mems) : dicts \in {messages_dict(history)},
                                    mems \in {memories_dict(retrieved_memories)}})

\* the reply of a provider that answers
StubResponse == [content |-> Str(<<"ok">>), model |-> "stub"]

\* LLMAgent.process_message, lines 55-84: the message formatted and appended
\* to the history, stored when a memory manager and a session are attached,
\* and the memories retrieved (a retrieval that raises is skipped).  The
\* retrieval reads the connection of the memory manager.
LLMAgent_recall(world, object, message) ==
    LET self == world.agent[object]
        persists == self.memory_manager /\ self.session_id # "none"
        user_message == _format_message_for_llm(message)
        history == Append(self.conversation_history, user_message)
        appended == [world EXCEPT !.agent[object].conversation_history = history]
        stored_user == store_conversation_entry(world.working, self.id, self.session_id,
                                                "user", user_message.content, now)
        entered == IF persists
                   THEN [appended EXCEPT !.working = stored_user,
                                         !.committed = stored_user]
                   ELSE appended
        recall(r) ==
            IF r.raised \/ r.found = <<>>
            THEN [world |-> entered, history |-> history, retrieved_memories |-> <<>>]
            ELSE [world |-> [entered EXCEPT !.working.memories = r.working.memories,
                                            !.committed.memories = r.working.memories],
                  history |-> history, retrieved_memories |-> r.found]
    IN  IF self.memory_retriever /\ persists
        THEN Once({recall(r) : r \in {retrieve_for_message(self.id, message.content, 3)}})
        ELSE [world |-> entered, history |-> history, retrieved_memories |-> <<>>]

\* LLMAgent.process_message, lines 137-181: the provider called with the
\* prepared list; its answer appended to the history, stored, and sent as a
\* RESPONSE to the sender of the message; on an exception an ERROR message
\* to the sender instead.  The result names what the provider received.
LLMAgent_respond(recalled, object, message, prepared) ==
    LET self == recalled.world.agent[object]
        persists == self.memory_manager /\ self.session_id # "none"
        generated == ~prepared.raised /\ self.llm_provider = "ok"
        assistant_message ==
            LLMMessage("assistant", Text(StubResponse.content.len,
                                         KeywordsIn(StubResponse.content.words)))
        answered ==
            [recalled.world EXCEPT !.agent[object].conversation_history =
                history_after_response(recalled.history, prepared.messages,
                                       assistant_message)]
        kept(w) ==
            LET stored_assistant ==
                    store_conversation_entry(w.working, self.id, self.session_id,
                                             "assistant", assistant_message.content, now)
            IN  IF persists
                THEN [w EXCEPT !.working = stored_assistant,
                               !.committed = stored_assistant]
                ELSE w
        response_message ==
            WithMetadata(CoreMessage(MessageId(message.id.n, "response"), "response",
                                     self.id, message.sender, StubResponse.content,
                                     message.id),
                         ResponseMetadata(StubResponse.model))
        \* lines 173-181
        failed(w, error) ==
            LET e == ExceptionText(error, self.id)
                error_message ==
                    WithMetadata(
                        CoreMessage(MessageId(message.id.n, "error"), "error", self.id,
                                    message.sender,
                                    [words |-> <<"Error", "generating", "response">>
                                                  \o e.words,
                                     empty |-> FALSE, len |-> 27 + e.len],
                                    NoOriginal),
                        ErrorMetadata(e))
            IN  send_message(w, object, error_message)
        sent_or_failed(replied) ==
            IF replied.raised THEN failed(replied.world, replied.error) ELSE replied
        outcome ==
            IF prepared.raised THEN failed(recalled.world, "validation error")
            ELSE IF ~generated THEN failed(recalled.world, "provider down")
            ELSE Once({sent_or_failed(replied) :
                       replied \in {send_message(w, object, response_message) :
                                       w \in {kept(v) : v \in {answered}}}})
        report(o) ==
            [raised |-> o.raised, error |-> o.error, world |-> o.world,
             history |-> recalled.history,
             retrieved_memories |-> recalled.retrieved_memories,
             generate_called |-> ~prepared.raised,
             sent |-> IF prepared.raised THEN <<>> ELSE prepared.messages,
             pruned_count |-> prepared.pruned_count,
             answered |-> generated, prepare_context |-> prepared.prepare_context,
             arguments |-> prepared.arguments,
             arguments_after |-> prepared.arguments_after]
    IN  Once({report(o) : o \in {outcome}})

\* LLMAgent.process_message.  clk holds the clock readings of the pruning.
\* store_conversation_entry raises IntegrityError without the session row
\* (the first call, line 61, is outside the try statement).
LLMAgent_process_message(world, object, message, clk) ==
    LET self == world.agent[object]
        respond(recalled) ==
            Once({LLMAgent_respond(recalled, object, message, prepared) :
                  prepared \in {messages_to_send(self.context_manager, recalled.history,
                                                 recalled.retrieved_memories, clk)}})
    IN  IF /\ self.memory_manager
           /\ self.session_id # "none"
           /\ ~SessionExists(world.working, self.session_id)
        THEN [raised |-> TRUE, error |-> "FOREIGN KEY constraint failed",
              world |-> [world EXCEPT !.agent[object].conversation_history =
                            Append(@, _format_message_for_llm(message))],
              history |-> Append(self.conversation_history,
                                 _format_message_for_llm(message)),
              retrieved_memories |-> <<>>,
              generate_called |-> FALSE, sent |-> <<>>, pruned_count |-> 0,
              answered |-> FALSE, prepare_context |-> FALSE,
              arguments |-> [messages |-> <<>>, memories |-> <<>>],
              arguments_after |-> [messages |-> <<>>, memories |-> <<>>]]
        ELSE Once({respond(recalled) :
                   recalled \in {LLMAgent_recall(world, object, message)}})

(***************************************************************************)
(* One LLMAgent, registered with an orchestrator that has no memory        *)
(* manager, and called directly (await agent.process_message(message)).    *)
(* The agent has answered its earlier messages before the memory manager   *)
(* was attached to it with Agent.set_memory_manager.                       *)
(***************************************************************************)
\* the values of max_context_tokens: effective budgets of 30 and 180 tokens
LLMBudgets == {20030, 20180}

LLMContents == {Str(<<"error">>), Str(<<"ok">>)}

\* a TASK from "user", the n-th message that the caller constructs
UserTask(n, recipient, content) ==
    CoreMessage(MessageId(n, "sent"), "task", "user", recipient, content, NoOriginal)

\* clock readings of a call during which the clock does not advance
NoTick(n) == [slot \in 1..NumSlots(n) |-> 0]

\* the objects after k calls of process_message with the content "ok"
RECURSIVE AfterTasks(_, _, _)
AfterTasks(world, object, k) ==
    IF k = 0 THEN world
    ELSE Once({LLMAgent_process_message(
                   before, object, UserTask(0, object, Str(<<"ok">>)),
                   NoTick(Len(before.agent[object].conversation_history) + 1)).world :
               before \in {AfterTasks(world, object, k - 1)}})

AliceMemory == MemoryArgs("alice", "s1", "episodic", <<"Error", "in", "parser">>, 5000)

InitLLM ==
    /\ cm = TestConfig
    /\ messages = <<>>
    /\ memories = <<>>
    /\ now = 0
    /\ ret = Idle
    /\ seen = {}
    /\ calls = [caller \in Callers |-> NotCalling]
    /\ created = 0
    /\ \E max_context_tokens \in LLMBudgets, system_prompt \in {0, 12},
          llm_provider \in {"ok", "fails"}, earlier \in {0, 5},
          attached \in BOOLEAN, stored \in BOOLEAN :
         LET alice == [NewLLMAgent("alice", system_prompt, max_context_tokens,
                                   llm_provider)
                          EXCEPT !.message_callback = TRUE]
             registered == World([NewOrchestrator EXCEPT !.agents = "alice" :> "alice"],
                                 "alice" :> alice, EmptyDb, EmptyDb)
             session == create_session(EmptyDb, "s1", NoItems, 0).db
             row == InsertMemoryRow(session, AliceMemory)
         IN  \E talked \in {AfterTasks(registered, "alice", earlier)} :
               /\ orch = talked.orch
               /\ agent = IF attached
                          THEN set_memory_manager(talked.agent, {"alice"}, "s1")
                          ELSE talked.agent
               /\ working = IF stored THEN InsertIndexEntry(row, row.seq, AliceMemory)
                            ELSE session
               /\ committed = working

\* The clock readings that a call of process_message may get.  The clock
\* is read only while the history is pruned; it has advanced by an hour
\* since the call before, or it has not.
ProcessTicks(self, message) ==
    LET history == Append(self.conversation_history, _format_message_for_llm(message))
        unchanged == NumSlots(Len(history)) + 1
    IN  IF should_prune(self.context_manager, messages_dict(history))
        THEN {tickAt \in TickChoices(Len(history)) : tickAt \in {1, unchanged}}
        ELSE {unchanged}

\* await agent.process_message(message) with a new TASK from "user"
ProcessMessage ==
    /\ ret = Idle
    /\ created < MaxCreated
    /\ \E object \in DOMAIN agent, content \in LLMContents :
         LET message == UserTask(created + 1, agent[object].id, content)
             n == Len(agent[object].conversation_history) + 1
         IN  \E tickAt \in ProcessTicks(agent[object], message) :
               \E r \in {LLMAgent_process_message(World(orch, agent, working, committed),
                                                  object, message, Readings(n, tickAt))} :
                   /\ CanAccess(r.retrieved_memories)
                   /\ orch' = r.world.orch
                   /\ agent' = r.world.agent
                   /\ working' = r.world.working
                   /\ committed' = r.world.committed
                   /\ now' = IF tickAt <= NumSlots(n) THEN now + 1 ELSE now
                   /\ ret' = [op |-> "process_message", raised |-> r.raised,
                              object |-> object, message |-> message,
                              before |-> agent[object].conversation_history,
                              history |-> r.history,
                              retrieved_memories |-> r.retrieved_memories,
                              generate_called |-> r.generate_called,
                              sent |-> r.sent, pruned_count |-> r.pruned_count,
                              answered |-> r.answered,
                              prepare_context |-> r.prepare_context,
                              arguments |-> r.arguments,
                              arguments_after |-> r.arguments_after]
    /\ created' = created + 1
    /\ UNCHANGED <<cm, messages, memories, seen, calls>>

NextLLM ==
    \/ ProcessMessage
    \/ Return

SpecLLM == InitLLM /\ [][NextLLM]_vars

\* C38: with context management enabled, the list that process_message
\* passes to llm_provider.generate has a token estimate of at most the
\* effective budget of the context manager whenever the conversation history
\* alone fits that budget, also when retrieved memories are added to it.
C38_SentListFitsBudget ==
    (/\ ret.op = "process_message"
     /\ ret.generate_called
     /\ estimate_tokens_for_messages(messages_dict(ret.history))
           <= agent[ret.object].context_manager.effective_max_tokens)
    => estimate_tokens_for_messages(messages_dict(ret.sent))
           <= agent[ret.object].context_manager.effective_max_tokens

\* s is the beginning of t
IsPrefix(s, t) == Len(s) <= Len(t) /\ SubSeq(t, 1, Len(s)) = s

MaxLog == 2

Last(s, k) == SubSeq(s, Max(1, Len(s) - k + 1), Len(s))

\* One turn of the loop of Agent.start of an LLMAgent, lines 131-143: the
\* clock is not read (the default budget of 160000 tokens is never reached
\* by MaxLog messages)
LLMLoopTurn(world, object) ==
    LET self == world.agent[object]
        message == Head(self.inbox)
        taken == [world EXCEPT !.agent[object].inbox = Tail(@)]
        error_msg(e) ==
            WithMetadata(CoreMessage(MessageId(message.id.n, "error"), "error",
                                     self.id, "none",
                                     [words |-> <<"Error", "processing", "message">>
                                                   \o e.words,
                                      empty |-> FALSE, len |-> 26 + e.len],
                                     NoOriginal),
                         ErrorMetadata(e))
        reported(processed) ==
            IF ~processed.raised \/ ~processed.world.agent[object].message_callback
            THEN [raised |-> FALSE, world |-> processed.world]
            ELSE _handle_message(processed.world,
                                 error_msg(ExceptionText(processed.error, self.id)))
        turn(processed) ==
            Once({[raised |-> r.raised, world |-> r.world] : r \in {reported(processed)}})
    IN  Once({turn(processed) :
              processed \in {LLMAgent_process_message(
                                 taken, object, message,
                                 NoTick(Len(self.conversation_history) + 1))}})

\* max_context_tokens of LLMAgent.__init__
DefaultMaxContextTokens == 180000

InitChat ==
    /\ cm = TestConfig
    /\ messages = <<>>
    /\ memories = <<>>
    /\ now = 0
    /\ ret = Idle
    /\ seen = {}
    /\ committed = EmptyDb
    /\ working = EmptyDb
    /\ calls = [caller \in Callers |-> NotCalling]
    /\ created = 0
    /\ orch = [NewOrchestrator EXCEPT
                  !.agents = [name \in LLMObjects |-> name],
                  !.running = TRUE,
                  !._agent_tasks = {[agent |-> object, done |-> FALSE] :
                                       object \in LLMObjects}]
    /\ \E providers \in [LLMObjects -> {"ok", "fails"}] :
         agent = [object \in LLMObjects |->
                     [NewLLMAgent(object, 0, DefaultMaxContextTokens, providers[object])
                         EXCEPT !.message_callback = TRUE, !.running = TRUE]]

\* Orchestrator.send_message_to_agent with a new Message, from outside
\* ("user") or in the name of the other agent, as simple_conversation.py
\* sends message_to_bob with sender="alice"
InjectMessage ==
    /\ ret = Idle
    /\ created < MaxCreated
    /\ \E agent_id \in LLMObjects, type \in {"task", "query"} :
       \E sender \in ({"user"} \cup LLMObjects) \ {agent_id} :
         LET message == CoreMessage(MessageId(created + 1, "sent"), type, sender,
                                    agent_id, Str(<<"ok">>), NoOriginal)
         IN  /\ agent' = receive_message(agent, {orch.agents[agent_id]}, message)
             /\ ret' = [op |-> "send_message_to_agent", raised |-> FALSE,
                        message |-> message]
    /\ created' = created + 1
    /\ UNCHANGED <<cm, messages, memories, now, seen, committed, working, orch, calls>>

\* the loop of the agent takes the next message of its inbox
LLMStep(object) ==
    /\ HasTask(object)
    /\ agent[object].running
    /\ agent[object].inbox # <<>>
    /\ \E r \in {LLMLoopTurn(World(orch, agent, working, committed), object)} :
         /\ orch' = [r.world.orch EXCEPT
                        !._agent_tasks =
                            IF r.raised
                            THEN {IF task.agent = object THEN [task EXCEPT !.done = TRUE]
                                  ELSE task : task \in @}
                            ELSE @,
                        !.message_history = Last(@, MaxLog)]
         /\ agent' = [other \in DOMAIN agent |->
                         [r.world.agent[other] EXCEPT
                             !.conversation_history = Last(@, MaxLog)]]
         /\ working' = r.world.working
         /\ committed' = r.world.committed
    /\ UNCHANGED <<cm, messages, memories, now, ret, seen, calls, created>>

ChatStep == \E object \in LLMObjects : LLMStep(object)

NextChat ==
    \/ InjectMessage
    \/ ChatStep
    \/ Return

\* The loop of each agent is a task of the event loop: it takes a message
\* from its inbox whenever there is one.
SpecChat ==
    InitChat /\ [][NextChat]_vars /\ \A object \in LLMObjects : WF_vars(LLMStep(object))

\* every inbox is empty (a step of a loop is one step here: no agent is in
\* the middle of sending)
Quiescent == \A object \in DOMAIN agent : agent[object].inbox = <<>>

\* C36: after finitely many externally injected messages the system always
\* becomes quiescent (all inboxes empty, no agent sending), also for two
\* LLMAgents that address each other and for a provider that always fails.
C36_EventuallyQuiescent == <>[]Quiescent

====
